---- MODULE Spec2Model ----
(***************************************************************************)
(* GOG-UpdateChecker (src/gog_api_gui.py): the update-check worker         *)
(* UpdateCheckThread.run, the version detection it performs on a game's    *)
(* install directory, the GOGDB lookup with its local fallbacks, and the   *)
(* classification of the comparison into an update status; the scanner's   *)
(* deduplication of its candidates and its cleaning and validation of      *)
(* version strings; and the window's handlers that start the scan thread   *)
(* and the update-check thread.                                            *)
(*                                                                         *)
(* Specifications: Spec (one update check), SpecBatch (an update check of  *)
(* several games, with the exception handler of run), SpecReadable (one    *)
(* update check of a game whose files hold a readable version),            *)
(* SpecClassify (the classification alone), SpecScan (find_gog_games       *)
(* alone), SpecVersion (_clean_version_string and _is_valid_version        *)
(* alone), SpecFilter (filter_builds_by_os alone), SpecDlc (the DLC test   *)
(* and the base name of get_latest_version_info alone), SpecDetect (the    *)
(* two detections of the build id alone) and SpecGui (the window, its      *)
(* timers, its scan thread and the loop of its update-check thread).       *)
(*                                                                         *)
(* Python strings are sequences of one-character strings, so that          *)
(* str.isdigit, len, int, split, lower and the `in` substring test are     *)
(* computed and not assumed.  None and the empty string are both the       *)
(* empty sequence: every test the code makes on such a value is a          *)
(* truthiness test ("if detected_version:", "if gog_id:", "if build_id     *)
(* and ..."), which does not tell them apart.  A dictionary key that is    *)
(* absent is the empty sequence (or the empty TLA+ string for the fields   *)
(* that hold one of a few fixed texts).                                    *)
(* The fields tags and size of a game record and the log_message and       *)
(* progress_update signals carry display text only and are left out.       *)
(* The per-path caches of the two detection methods live as long as one    *)
(* worker and return what the first call computed; they are left out.      *)
(***************************************************************************)
EXTENDS Integers, Sequences, FiniteSets, TLC

(***************************************************************************)
(* Bounds and program constants                                            *)
(***************************************************************************)
\* number of games handed to one UpdateCheckThread
MaxGames == 1

\* isdigit() and len(...) >= 8: the length that makes a digit string a build id
BuildIdMinLen == 8
\* _is_valid_version: at most 5 dot-separated parts, none above 9999
MaxVersionParts == 5
MaxVersionPart == 9999

(***************************************************************************)
(* String literals                                                         *)
(***************************************************************************)
None == << >>
Unknown == <<"U", "n", "k", "n", "o", "w", "n">>
Dash == <<"-">>
KwDash == <<" ", "-", " ">>
KwColon == <<":", " ">>
KwDlc == <<" ", "d", "l", "c">>
KwExpansion == <<" ", "e", "x", "p", "a", "n", "s", "i", "o", "n">>
KwPack == <<" ", "p", "a", "c", "k">>
NameGwent == <<"G", "w", "e", "n", "t">>
NamePhantom == <<"C", "y", "b", "e", "r", "p", "u", "n", "k", " ", "2", "0", "7", "7", ":", " ", "P", "h", "a", "n", "t", "o", "m", " ", "L", "i", "b", "e", "r", "t", "y">>
NameMapPack == <<"M", "a", "p", " ", "P", "a", "c", "k">>
BaseCyberpunk == <<"C", "y", "b", "e", "r", "p", "u", "n", "k", " ", "2", "0", "7", "7">>
GogIdLong == <<"1", "2", "0", "7", "6", "5", "8", "9", "2", "4">>
GogIdShort == <<"1", "2", "3", "4", "5", "6", "7">>
StemAbc == <<"a", "b", "c">>
Build726 == <<"4", "9", "1", "8", "3", "7", "2", "6">>
Build999 == <<"4", "9", "1", "8", "3", "9", "9", "9">>
Ver1226 == <<"1", ".", "2", ".", "2", "6">>
Ver20 == <<"2", ".", "0">>
Zeros1234 == <<"0", "0", "0", "0", "1", "2", "3", "4">>
Build726Padded == <<"0", "4", "9", "1", "8", "3", "7", "2", "6">>
OsWindows == <<"w", "i", "n", "d", "o", "w", "s">>
OsOsx == <<"o", "s", "x">>
OsLinux == <<"l", "i", "n", "u", "x">>
OsWin == <<"w", "i", "n">>
OsPc == <<"p", "c">>
OsMac == <<"m", "a", "c">>
OsMacos == <<"m", "a", "c", "o", "s">>
OsDarwin == <<"d", "a", "r", "w", "i", "n">>

(***************************************************************************)
(* Python string primitives                                                *)
(***************************************************************************)
Digits == {"0", "1", "2", "3", "4", "5", "6", "7", "8", "9"}

DigitVal(c) ==
    CASE c = "0" -> 0 [] c = "1" -> 1 [] c = "2" -> 2 [] c = "3" -> 3
      [] c = "4" -> 4 [] c = "5" -> 5 [] c = "6" -> 6 [] c = "7" -> 7
      [] c = "8" -> 8 [] c = "9" -> 9

\* str.isdigit(): non-empty and every character a digit
IsDigit(s) == Len(s) > 0 /\ \A i \in 1..Len(s) : s[i] \in Digits

RECURSIVE DigitsToInt(_)
DigitsToInt(s) ==
    IF Len(s) = 0 THEN 0
    ELSE DigitsToInt(SubSeq(s, 1, Len(s) - 1)) * 10 + DigitVal(s[Len(s)])

\* str.strip() of blanks
RECURSIVE StripBlanks(_)
StripBlanks(s) ==
    IF Len(s) > 0 /\ s[1] = " " THEN StripBlanks(Tail(s))
    ELSE IF Len(s) > 0 /\ s[Len(s)] = " " THEN StripBlanks(SubSeq(s, 1, Len(s) - 1))
    ELSE s

\* int(s) succeeds: blanks around an optionally signed run of digits
IntParsable(s) ==
    LET t == StripBlanks(s)
        body == IF Len(t) > 0 /\ t[1] \in {"+", "-"} THEN Tail(t) ELSE t
    IN  IsDigit(body)

\* int(s), for a string on which int succeeds
ToInt(s) ==
    LET t == StripBlanks(s)
    IN  IF Len(t) > 0 /\ t[1] = "-" THEN 0 - DigitsToInt(Tail(t))
        ELSE IF Len(t) > 0 /\ t[1] = "+" THEN DigitsToInt(Tail(t))
        ELSE DigitsToInt(t)

LowerChar(c) ==
    CASE c = "A" -> "a" [] c = "B" -> "b" [] c = "C" -> "c" [] c = "D" -> "d"
      [] c = "E" -> "e" [] c = "F" -> "f" [] c = "G" -> "g" [] c = "H" -> "h"
      [] c = "I" -> "i" [] c = "J" -> "j" [] c = "K" -> "k" [] c = "L" -> "l"
      [] c = "M" -> "m" [] c = "N" -> "n" [] c = "O" -> "o" [] c = "P" -> "p"
      [] c = "Q" -> "q" [] c = "R" -> "r" [] c = "S" -> "s" [] c = "T" -> "t"
      [] c = "U" -> "u" [] c = "V" -> "v" [] c = "W" -> "w" [] c = "X" -> "x"
      [] c = "Y" -> "y" [] c = "Z" -> "z" [] OTHER -> c

\* str.lower()
Lower(s) == [i \in 1..Len(s) |-> LowerChar(s[i])]

\* the positions at which sub occurs in s
Occurrences(sub, s) ==
    {i \in 1..(Len(s) - Len(sub) + 1) : SubSeq(s, i, i + Len(sub) - 1) = sub}

\* sub in s
Contains(sub, s) == Occurrences(sub, s) # {}

\* s.split(sep)[0]
SplitFirst(s, sep) ==
    IF ~Contains(sep, s) THEN s
    ELSE LET k == CHOOSE i \in Occurrences(sep, s) : \A j \in Occurrences(sep, s) : i <= j
         IN  SubSeq(s, 1, k - 1)

\* s.split('.')
RECURSIVE SplitDots(_)
SplitDots(s) ==
    IF ~Contains(<<".">>, s) THEN <<s>>
    ELSE LET head == SplitFirst(s, <<".">>)
         IN  <<head>> \o SplitDots(SubSeq(s, Len(head) + 2, Len(s)))

\* s.startswith(prefix)
StartsWith(s, prefix) ==
    Len(s) >= Len(prefix) /\ SubSeq(s, 1, Len(prefix)) = prefix

\* s.strip(chars)
RECURSIVE StripChars(_, _)
StripChars(s, chars) ==
    IF Len(s) > 0 /\ s[1] \in chars THEN StripChars(Tail(s), chars)
    ELSE IF Len(s) > 0 /\ s[Len(s)] \in chars
    THEN StripChars(SubSeq(s, 1, Len(s) - 1), chars)
    ELSE s

\* '.'.join(parts)
RECURSIVE JoinDots(_)
JoinDots(parts) ==
    IF Len(parts) = 0 THEN << >>
    ELSE IF Len(parts) = 1 THEN parts[1]
    ELSE parts[1] \o <<".">> \o JoinDots(Tail(parts))

(***************************************************************************)
(* Version strings                                                         *)
(***************************************************************************)
\* "x.isdigit() and len(x) >= 8", the test the code repeats wherever it
\* tells a build id from a version or a GOG id
IsBuildId(s) == IsDigit(s) /\ Len(s) >= BuildIdMinLen

\* UpdateCheckThread._is_valid_version
IsValidVersion(version) ==
    IF version = None THEN FALSE
    ELSE LET parts == SplitDots(version)
         IN  /\ ~(Len(parts) > MaxVersionParts \/ Len(parts) < 1)
             /\ \A i \in 1..Len(parts) : IntParsable(parts[i])
             /\ ~\E i \in 1..Len(parts) : ToInt(parts[i]) > MaxVersionPart

\* _clean_version_string: the prefixes, in the order the loop tries them
PrefixV == <<"v">>
PrefixVer == <<"v", "e", "r">>
PrefixVersion == <<"v", "e", "r", "s", "i", "o", "n">>
PrefixRel == <<"r", "e", "l">>
PrefixRelease == <<"r", "e", "l", "e", "a", "s", "e">>

Prefixes == <<PrefixV, PrefixVer, PrefixVersion, PrefixRel, PrefixRelease>>

\* _clean_version_string: "while len(parts) > 2 and parts[-1] == '0': parts.pop()"
RECURSIVE PopTrailingZeros(_)
PopTrailingZeros(parts) ==
    IF Len(parts) > 2 /\ parts[Len(parts)] = <<"0">>
    THEN PopTrailingZeros(SubSeq(parts, 1, Len(parts) - 1))
    ELSE parts

\* GOGGameScanner._clean_version_string and its copy
\* UpdateCheckThread._clean_version_string_thread
CleanVersionString(version_str) ==
    IF version_str = None THEN None
    ELSE LET stripped == StripBlanks(version_str)
             matching == {k \in 1..Len(Prefixes) :
                             StartsWith(Lower(stripped), Prefixes[k])}
             unprefixed ==
                 IF matching = {} THEN stripped
                 ELSE LET prefix == Prefixes[CHOOSE k \in matching :
                                                 \A j \in matching : k <= j]
                      IN  StripChars(SubSeq(stripped, Len(prefix) + 1, Len(stripped)),
                                     {".", ":", " "})
             parts == PopTrailingZeros(SplitDots(unprefixed))
             clean == JoinDots(parts)
         IN  IF IsValidVersion(clean) THEN clean ELSE None

(***************************************************************************)
(* The file system: install directories and their GOG metadata             *)
(*                                                                         *)
(* A metadata file goggame-<stem>.info is its stem and what the regular    *)
(* expressions of the code find in its text: the value of the "buildId",   *)
(* "build_id" and "build" fields (None when the field is absent or the     *)
(* file cannot be read) and, in the order findall yields them, the values  *)
(* matched by the version patterns.  A directory is the listing of its     *)
(* metadata files in os.listdir order, what _get_exe_version returns for   *)
(* its main executable and what _extract_version_from_text returns for     *)
(* its version.txt.                                                        *)
(***************************************************************************)
InfoFile(stem, buildId, versions) ==
    [stem |-> stem, buildId |-> buildId, build_id |-> None, build |-> None,
     versions |-> versions]

NoDirectory ==
    [exists |-> FALSE, files |-> << >>, exe_version |-> None, txt_version |-> None]

GameDirectory(files, exe_version, txt_version) ==
    [exists |-> TRUE, files |-> files, exe_version |-> exe_version,
     txt_version |-> txt_version]

\* the install paths of the model; "Unknown" is the path of a registry entry
\* without InstallLocation, which does not exist on disk
Paths == {"Unknown", "build726", "build999", "idonly", "shortid", "strayfirst"}

GogPaths == Paths \ {"Unknown"}

Directory(path) ==
    CASE path = "build726" ->
           GameDirectory(<<InfoFile(GogIdLong, Build726, <<Ver1226>>)>>, None, None)
      [] path = "build999" ->
           GameDirectory(<<InfoFile(GogIdLong, Build999, <<Build999>>)>>, Ver20, None)
      [] path = "idonly" ->
           GameDirectory(<<InfoFile(GogIdLong, None, << >>)>>, None, None)
      [] path = "shortid" ->
           GameDirectory(<<InfoFile(GogIdShort, GogIdShort, << >>)>>, None, Ver1226)
      [] path = "strayfirst" ->
           GameDirectory(<<InfoFile(StemAbc, None, << >>),
                           InfoFile(GogIdLong, Build726, <<Ver1226>>)>>, None, None)
      [] path = "zerostxt" ->
           GameDirectory(<<InfoFile(GogIdLong, Build726, <<Build999>>)>>, None, Zeros1234)
      [] path = "zerosexe" ->
           GameDirectory(<<InfoFile(GogIdLong, Build726, << >>)>>, Zeros1234, None)
      [] OTHER -> NoDirectory

\* re.search(r'goggame-(\d+)\.info', file.lower()) on goggame-<stem>.info
StemMatches(file) == IsDigit(file.stem)

\* GOGGameScanner._detect_gog_metadata_version, on what the file system
\* holds at game_path
DetectGogMetadataVersionIn(d) ==
    LET matching == {i \in 1..Len(d.files) : StemMatches(d.files[i])}
    IN  IF ~d.exists \/ matching = {} THEN None
        ELSE LET file == d.files[CHOOSE i \in matching : \A j \in matching : i <= j]
                 gog_id == file.stem
             IN  IF IsBuildId(file.buildId) THEN file.buildId
                 ELSE IF IsBuildId(file.build_id) THEN file.build_id
                 ELSE IF IsBuildId(file.build) THEN file.build
                 ELSE gog_id

\* GOGGameScanner._detect_gog_metadata_version
DetectGogMetadataVersion(game_path) == DetectGogMetadataVersionIn(Directory(game_path))

\* UpdateCheckThread.detect_version_from_gog_files, on what the file system
\* holds at install_path
DetectVersionFromGogFilesIn(d) ==
    IF ~d.exists THEN None
    ELSE IF d.files # << >> /\ StemMatches(d.files[1])
    THEN LET file == d.files[1]
             gog_id == file.stem
         IN  IF file.buildId # None /\ IsBuildId(file.buildId)
             THEN file.buildId
             ELSE gog_id
    ELSE None

\* UpdateCheckThread.detect_version_from_gog_files
DetectVersionFromGogFiles(install_path) ==
    DetectVersionFromGogFilesIn(Directory(install_path))

\* UpdateCheckThread.run, "Extract actual GOG ID for API calls"
ActualGogId(install_path) ==
    LET d == Directory(install_path)
        matching == {i \in 1..Len(d.files) : StemMatches(d.files[i])}
    IN  IF ~d.exists \/ matching = {} THEN None
        ELSE d.files[CHOOSE i \in matching : \A j \in matching : i <= j].stem

\* UpdateCheckThread.detect_readable_version_from_gog_files
DetectReadableVersionFromGogFiles(install_path) ==
    LET d == Directory(install_path)
        cands == IF d.files # << >> THEN d.files[1].versions ELSE << >>
        good == {i \in 1..Len(cands) :
                    /\ cands[i] # None
                    /\ ~IsBuildId(cands[i])
                    /\ IsValidVersion(cands[i])}
    IN  IF ~d.exists THEN None
        ELSE IF good # {} THEN cands[CHOOSE i \in good : \A j \in good : i <= j]
        ELSE IF d.exe_version # None THEN d.exe_version
        ELSE IF d.txt_version # None /\ IsValidVersion(d.txt_version) THEN d.txt_version
        ELSE None

(***************************************************************************)
(* Game records as the scanner produces them                               *)
(***************************************************************************)
ScannedGame(name, install_path, installed_version) ==
    [name |-> name, install_path |-> install_path,
     installed_version |-> installed_version,
     gog_id |-> None, readable_version |-> None, latest_version |-> None,
     update_status |-> "", changelog |-> ""]

Names == {NameGwent, NamePhantom, NameMapPack}

\* what _clean_version_string lets through from a registry value
RegistryVersions == {Ver1226}

\* GOGGameScanner._extract_game_info_from_registry
RegistryGames ==
    {ScannedGame(n, p, v) : n \in Names, p \in Paths, v \in RegistryVersions \cup {Unknown}}

\* a key under ...\Uninstall that _scan_registry takes for a GOG game: its
\* name, whether it has a DisplayName value, that value, and its
\* InstallLocation ("Unknown" when it has none); the keys of the model have
\* no version values
RegistryKey(game_key, has_display_name, display_name, install_path) ==
    [game_key |-> game_key, has_display_name |-> has_display_name,
     DisplayName |-> display_name, InstallLocation |-> install_path]

\* GOGGameScanner._extract_game_info_from_registry
ExtractGameInfoFromRegistry(key) ==
    ScannedGame(IF key.has_display_name THEN key.DisplayName ELSE key.game_key,
                key.InstallLocation, Unknown)

\* GOGGameScanner._scan_registry: one record per key, in the order of the keys
ScanRegistry(keys) == [k \in 1..Len(keys) |-> ExtractGameInfoFromRegistry(keys[k])]

\* GOGGameScanner._analyze_game_directory
AnalyzeGameDirectory(game_path, folder_name) ==
    LET gog_version == DetectGogMetadataVersion(game_path)
    IN  ScannedGame(folder_name, game_path,
                    IF gog_version # None THEN gog_version ELSE Unknown)

DirectoryGames == {AnalyzeGameDirectory(p, n) : p \in GogPaths, n \in Names}

\* run's local game before the loop has bound it
NoGame == ScannedGame(None, "Unknown", Unknown)

ScannedGames == RegistryGames \cup DirectoryGames

\* find_gog_games, the loop over all_games with every name taking the
\* slot of its key, so that the last candidate of a name stays
RECURSIVE UniqueGamesLastWins(_, _)
UniqueGamesLastWins(all_games, n) ==
    IF n = 0 THEN << >>
    ELSE LET unique_games == UniqueGamesLastWins(all_games, n - 1)
             game == all_games[n]
             game_name == Lower(game.name)
             slots == {k \in 1..Len(unique_games) :
                          Lower(unique_games[k].name) = game_name}
         IN  IF game_name = None THEN unique_games
             ELSE IF slots = {} THEN Append(unique_games, game)
             ELSE [k \in 1..Len(unique_games) |->
                      IF k \in slots THEN game ELSE unique_games[k]]

\* find_gog_games keeping the last candidate of each name
FindGogGamesLastWins(registry_games, directory_games) ==
    LET all_games == registry_games \o directory_games
    IN  UniqueGamesLastWins(all_games, Len(all_games))

\* find_gog_games, the loop over all_games without the test that the name
\* is not empty
RECURSIVE UniqueGamesKeepsEmpty(_, _)
UniqueGamesKeepsEmpty(all_games, n) ==
    IF n = 0 THEN << >>
    ELSE LET unique_games == UniqueGamesKeepsEmpty(all_games, n - 1)
             game == all_games[n]
             game_name == Lower(game.name)
         IN  IF ~\E k \in 1..Len(unique_games) :
                       Lower(unique_games[k].name) = game_name
             THEN Append(unique_games, game)
             ELSE unique_games

\* find_gog_games keeping a candidate whose name is empty
FindGogGamesKeepsEmpty(registry_games, directory_games) ==
    LET all_games == registry_games \o directory_games
    IN  UniqueGamesKeepsEmpty(all_games, Len(all_games))

\* find_gog_games, the loop over all_games: unique_games after the first n
\* candidates, as the list of its values (a dict keeps insertion order;
\* the key of a value is its lowercased name)
RECURSIVE UniqueGames(_, _)
UniqueGames(all_games, n) ==
    IF n = 0 THEN << >>
    ELSE LET unique_games == UniqueGames(all_games, n - 1)
             game == all_games[n]
             game_name == Lower(game.name)
         IN  IF /\ game_name # None
                /\ ~\E k \in 1..Len(unique_games) :
                       Lower(unique_games[k].name) = game_name
             THEN Append(unique_games, game)
             ELSE unique_games

\* GOGGameScanner.find_gog_games, from the two scans' results to found_games
FindGogGames(registry_games, directory_games) ==
    LET all_games == registry_games \o directory_games
    IN  UniqueGames(all_games, Len(all_games))

(***************************************************************************)
(* The GOGDB catalog: responses to GET /data/products/<id>/product.json    *)
(***************************************************************************)
\* a build of the builds list; os is the tag filter_builds_by_os reads
\* (None when the build carries none), version the 'version' field
Build(id, version, os) == [id |-> id, version |-> version, os |-> os]

BuildLists ==
    { <<Build(Build726, Ver1226, OsWindows)>>,
      <<Build(Build726, Ver1226, OsWindows), Build(Build999, Ver20, OsWindows)>>,
      <<Build(Build999, Build999, OsWindows), Build(Build726, None, OsLinux)>>,
      <<Build(Build726, Ver1226, OsOsx)>>,
      <<Build(GogIdShort, Ver20, OsWindows)>>,
      <<Build(None, None, None)>> }

\* what urlopen and json.loads can make of one request
FailureKinds ==
    {"timeout", "url_error", "http_404", "http_error", "bad_json", "status_not_200"}

Response(kind, builds, version) == [kind |-> kind, builds |-> builds, version |-> version]

NoResponse == Response("none", << >>, None)

Responses ==
    {Response("ok", b, None) : b \in BuildLists \cup {<< >>}}
      \cup {Response("ok", <<Build(Build726, None, OsWindows)>>, v) : v \in {Ver20, Build999}}
      \cup {Response(k, << >>, None) : k \in FailureKinds}

OSNames == {OsWindows, OsOsx, OsLinux}

\* UpdateCheckThread.filter_builds_by_os
FilterBuildsByOs(builds, target_os) ==
    SelectSeq(builds, LAMBDA build :
        /\ build.os # None
        /\ \/ target_os = OsWindows /\ \E v \in {OsWindows, OsWin, OsPc} : Contains(v, Lower(build.os))
           \/ target_os = OsOsx /\ \E v \in {OsOsx, OsMac, OsMacos, OsDarwin} : Contains(v, Lower(build.os))
           \/ target_os = OsLinux /\ Contains(OsLinux, Lower(build.os)))

(***************************************************************************)
(* Lookup results (the dictionaries get_latest_version_info returns)       *)
(***************************************************************************)
VersionInfo(latest_version, changelog, source, base_game, readable_version) ==
    [kind |-> "ok", latest_version |-> latest_version, changelog |-> changelog,
     source |-> source, base_game |-> base_game,
     readable_version |-> readable_version]

\* try_gogdb_api returning None
NoResult ==
    [kind |-> "none", latest_version |-> None, changelog |-> "", source |-> "",
     base_game |-> None, readable_version |-> None]

\* {"error": ...}
ErrorResult ==
    [kind |-> "error", latest_version |-> None, changelog |-> "", source |-> "",
     base_game |-> None, readable_version |-> None]

\* try_gogdb_api taking the build with the greatest id of the list it selects from
TryGogdbApiGreatestId(gog_id, base_game_name, game_name, is_dlc, resp, current_os, notes) ==
    IF resp.kind = "ok" /\ resp.builds # << >>
    THEN LET builds == resp.builds
             os_builds == FilterBuildsByOs(builds, current_os)
             from == IF os_builds # << >> THEN os_builds ELSE builds
             latest_build ==
                 from[CHOOSE k \in 1..Len(from) :
                         \A j \in 1..Len(from) :
                             \/ ~IsDigit(from[j].id)
                             \/ /\ IsDigit(from[k].id)
                                /\ ToInt(from[j].id) <= ToInt(from[k].id)]
             version == IF latest_build.version = None THEN Unknown
                        ELSE latest_build.version
             build_id == latest_build.id
             from_build == IF version # None /\ version # Unknown /\ ~IsBuildId(version)
                           THEN version ELSE None
             product_version == resp.version
             readable_api_version ==
                 IF product_version # None /\ ~IsBuildId(product_version)
                 THEN product_version ELSE from_build
             latest_version == IF build_id # None /\ IsBuildId(build_id)
                               THEN build_id ELSE gog_id
         IN  VersionInfo(latest_version,
                         IF notes THEN "release_notes" ELSE "build_info",
                         "gogdb.org",
                         IF is_dlc THEN base_game_name ELSE game_name,
                         readable_api_version)
    ELSE NoResult

\* try_gogdb_api taking any digit string for a build id
TryGogdbApiAnyDigits(gog_id, base_game_name, game_name, is_dlc, resp, current_os, notes) ==
    IF resp.kind = "ok" /\ resp.builds # << >>
    THEN LET builds == resp.builds
             os_builds == FilterBuildsByOs(builds, current_os)
             latest_build == IF os_builds # << >> THEN os_builds[Len(os_builds)]
                             ELSE builds[Len(builds)]
             version == IF latest_build.version = None THEN Unknown
                        ELSE latest_build.version
             build_id == latest_build.id
             from_build == IF version # None /\ version # Unknown /\ ~IsBuildId(version)
                           THEN version ELSE None
             product_version == resp.version
             readable_api_version ==
                 IF product_version # None /\ ~IsBuildId(product_version)
                 THEN product_version ELSE from_build
             latest_version == IF build_id # None /\ IsDigit(build_id)
                               THEN build_id ELSE gog_id
         IN  VersionInfo(latest_version,
                         IF notes THEN "release_notes" ELSE "build_info",
                         "gogdb.org",
                         IF is_dlc THEN base_game_name ELSE game_name,
                         readable_api_version)
    ELSE NoResult

\* try_gogdb_api falling back on the build's version field, not on the id
\* it queried, when the selected build's id is no build id
TryGogdbApiVersionField(gog_id, base_game_name, game_name, is_dlc, resp, current_os, notes) ==
    IF resp.kind = "ok" /\ resp.builds # << >>
    THEN LET builds == resp.builds
             os_builds == FilterBuildsByOs(builds, current_os)
             latest_build == IF os_builds # << >> THEN os_builds[Len(os_builds)]
                             ELSE builds[Len(builds)]
             version == IF latest_build.version = None THEN Unknown
                        ELSE latest_build.version
             build_id == latest_build.id
             from_build == IF version # None /\ version # Unknown /\ ~IsBuildId(version)
                           THEN version ELSE None
             product_version == resp.version
             readable_api_version ==
                 IF product_version # None /\ ~IsBuildId(product_version)
                 THEN product_version ELSE from_build
             latest_version == IF build_id # None /\ IsBuildId(build_id)
                               THEN build_id ELSE version
         IN  VersionInfo(latest_version,
                         IF notes THEN "release_notes" ELSE "build_info",
                         "gogdb.org",
                         IF is_dlc THEN base_game_name ELSE game_name,
                         readable_api_version)
    ELSE NoResult

\* try_gogdb_api giving "Unknown" for latest_version when the selected
\* build's id is no build id
TryGogdbApiUnknownLatest(gog_id, base_game_name, game_name, is_dlc, resp, current_os, notes) ==
    IF resp.kind = "ok" /\ resp.builds # << >>
    THEN LET builds == resp.builds
             os_builds == FilterBuildsByOs(builds, current_os)
             latest_build == IF os_builds # << >> THEN os_builds[Len(os_builds)]
                             ELSE builds[Len(builds)]
             version == IF latest_build.version = None THEN Unknown
                        ELSE latest_build.version
             build_id == latest_build.id
             from_build == IF version # None /\ version # Unknown /\ ~IsBuildId(version)
                           THEN version ELSE None
             product_version == resp.version
             readable_api_version ==
                 IF product_version # None /\ ~IsBuildId(product_version)
                 THEN product_version ELSE from_build
             latest_version == IF build_id # None /\ IsBuildId(build_id)
                               THEN build_id ELSE Unknown
         IN  VersionInfo(latest_version,
                         IF notes THEN "release_notes" ELSE "build_info",
                         "gogdb.org",
                         IF is_dlc THEN base_game_name ELSE game_name,
                         readable_api_version)
    ELSE NoResult

\* UpdateCheckThread.try_gogdb_api; notes tells whether
\* fetch_changelog_from_gogdb found release notes
TryGogdbApi(gog_id, base_game_name, game_name, is_dlc, resp, current_os, notes) ==
    IF resp.kind = "ok" /\ resp.builds # << >>
    THEN LET builds == resp.builds
             os_builds == FilterBuildsByOs(builds, current_os)
             latest_build == IF os_builds # << >> THEN os_builds[Len(os_builds)]
                             ELSE builds[Len(builds)]
             version == IF latest_build.version = None THEN Unknown
                        ELSE latest_build.version
             build_id == latest_build.id
             from_build == IF version # None /\ version # Unknown /\ ~IsBuildId(version)
                           THEN version ELSE None
             product_version == resp.version
             readable_api_version ==
                 IF product_version # None /\ ~IsBuildId(product_version)
                 THEN product_version ELSE from_build
             latest_version == IF build_id # None /\ IsBuildId(build_id)
                               THEN build_id ELSE gog_id
         IN  VersionInfo(latest_version,
                         IF notes THEN "release_notes" ELSE "build_info",
                         "gogdb.org",
                         IF is_dlc THEN base_game_name ELSE game_name,
                         readable_api_version)
    ELSE NoResult

\* get_latest_version_info: the DLC test on the game's name
IsDLC(game_name) ==
    \E dlc_keyword \in {KwDash, KwColon, KwDlc, KwExpansion, KwPack} :
        Contains(dlc_keyword, Lower(game_name))

\* get_latest_version_info: the base game's name
BaseGameName(game_name) ==
    IF ~IsDLC(game_name) THEN game_name
    ELSE IF Contains(KwDash, game_name) THEN SplitFirst(game_name, KwDash)
    ELSE IF Contains(KwColon, game_name) THEN SplitFirst(game_name, KwColon)
    ELSE game_name

\* get_latest_version_info without the DLC tier
GetLatestVersionInfoNoDlcTier(game_name, gog_id, resp, current_os, notes) ==
    LET gogdb_result == IF gog_id # None
                        THEN TryGogdbApi(gog_id, BaseGameName(game_name), game_name,
                                         IsDLC(game_name), resp, current_os, notes)
                        ELSE NoResult
    IN  IF gog_id # None /\ gogdb_result.kind = "ok" THEN gogdb_result
        ELSE IF gog_id # None
        THEN VersionInfo(gog_id, "local_note", "local_fallback", None, None)
        ELSE ErrorResult

\* get_latest_version_info reporting an error when the catalog answers 404
GetLatestVersionInfoNotFound(game_name, gog_id, resp, current_os, notes) ==
    LET gogdb_result == IF gog_id # None
                        THEN TryGogdbApi(gog_id, BaseGameName(game_name), game_name,
                                         IsDLC(game_name), resp, current_os, notes)
                        ELSE NoResult
    IN  IF gog_id # None /\ gogdb_result.kind = "ok" THEN gogdb_result
        ELSE IF resp.kind = "http_404" THEN ErrorResult
        ELSE IF gog_id # None /\ IsDLC(game_name)
        THEN VersionInfo(gog_id, "dlc_note", "local_detection",
                         BaseGameName(game_name), None)
        ELSE IF gog_id # None
        THEN VersionInfo(gog_id, "local_note", "local_fallback", None, None)
        ELSE ErrorResult

\* UpdateCheckThread.get_latest_version_info
GetLatestVersionInfo(game_name, gog_id, resp, current_os, notes) ==
    LET base_game_name == BaseGameName(game_name)
        is_dlc == IsDLC(game_name)
        gogdb_result == IF gog_id # None
                        THEN TryGogdbApi(gog_id, base_game_name, game_name, is_dlc,
                                         resp, current_os, notes)
                        ELSE NoResult
    IN  IF gog_id # None /\ gogdb_result.kind = "ok" THEN gogdb_result
        ELSE IF gog_id # None /\ is_dlc
        THEN VersionInfo(gog_id, "dlc_note", "local_detection", base_game_name, None)
        ELSE IF gog_id # None
        THEN VersionInfo(gog_id, "local_note", "local_fallback", None, None)
        ELSE ErrorResult

(***************************************************************************)
(* Classification: UpdateCheckThread.run, from "if version_info and        *)
(* 'error' not in version_info" to the end of the else branch              *)
(***************************************************************************)
StatusNoInstalled == "Cannot Check - No Installed Version"
StatusNoLatest == "Cannot Check - No Latest Version"
StatusDlc == "DLC - Base Game Reference"
StatusLocal == "Local Reference Only"
StatusUpToDate == "Up to Date"
StatusUpdate == "Update Available"
StatusNewer == "Newer Version Installed"
StatusDifferent == "Different Version"
StatusNotInDb == "Not in Database"

\* CompareVersions leaving the status unset when the values are of mixed kinds
CompareVersionsNoElse(installed_version, latest_version, source) ==
    IF source \in {"local_detection", "local_fallback"}
    THEN IF source = "local_detection" THEN StatusDlc ELSE StatusLocal
    ELSE IF installed_version = latest_version THEN StatusUpToDate
    ELSE IF IsBuildId(installed_version) /\ IsBuildId(latest_version)
    THEN IF ToInt(installed_version) < ToInt(latest_version) THEN StatusUpdate
         ELSE IF ToInt(installed_version) > ToInt(latest_version) THEN StatusNewer
         ELSE StatusUpToDate
    ELSE ""

\* CompareVersions with the two outcomes of the numeric comparison exchanged
CompareVersionsSwapped(installed_version, latest_version, source) ==
    IF source \in {"local_detection", "local_fallback"}
    THEN IF source = "local_detection" THEN StatusDlc ELSE StatusLocal
    ELSE IF installed_version = latest_version THEN StatusUpToDate
    ELSE IF IsBuildId(installed_version) /\ IsBuildId(latest_version)
    THEN IF ToInt(installed_version) < ToInt(latest_version) THEN StatusNewer
         ELSE IF ToInt(installed_version) > ToInt(latest_version) THEN StatusUpdate
         ELSE StatusUpToDate
    ELSE StatusDifferent

\* CompareVersions without the test for equal strings
CompareVersionsNoEqual(installed_version, latest_version, source) ==
    IF source \in {"local_detection", "local_fallback"}
    THEN IF source = "local_detection" THEN StatusDlc ELSE StatusLocal
    ELSE IF IsBuildId(installed_version) /\ IsBuildId(latest_version)
    THEN IF ToInt(installed_version) < ToInt(latest_version) THEN StatusUpdate
         ELSE IF ToInt(installed_version) > ToInt(latest_version) THEN StatusNewer
         ELSE StatusUpToDate
    ELSE StatusDifferent

\* CompareVersions giving 'Newer Version Installed' whenever the installed
\* build is not the smaller one
CompareVersionsNotSmallerIsNewer(installed_version, latest_version, source) ==
    IF source \in {"local_detection", "local_fallback"}
    THEN IF source = "local_detection" THEN StatusDlc ELSE StatusLocal
    ELSE IF installed_version = latest_version THEN StatusUpToDate
    ELSE IF IsDigit(installed_version) /\ IsDigit(latest_version)
            /\ Len(installed_version) >= BuildIdMinLen
            /\ Len(latest_version) >= BuildIdMinLen
    THEN LET installed_build == ToInt(installed_version)
             latest_build == ToInt(latest_version)
         IN  IF installed_build < latest_build THEN StatusUpdate
             ELSE StatusNewer
    ELSE StatusDifferent

\* CompareVersions comparing any two digit strings as numbers
CompareVersionsAnyDigits(installed_version, latest_version, source) ==
    IF source \in {"local_detection", "local_fallback"}
    THEN IF source = "local_detection" THEN StatusDlc ELSE StatusLocal
    ELSE IF installed_version = latest_version THEN StatusUpToDate
    ELSE IF IsDigit(installed_version) /\ IsDigit(latest_version)
    THEN LET installed_build == ToInt(installed_version)
             latest_build == ToInt(latest_version)
         IN  IF installed_build < latest_build THEN StatusUpdate
             ELSE IF installed_build > latest_build THEN StatusNewer
             ELSE StatusUpToDate
    ELSE StatusDifferent

\* the comparison of a known installed version with a known latest one;
\* int() cannot raise on the strings of decimal digits of this model, so the
\* 'except ValueError' branch (also 'Different Version') is not taken
CompareVersions(installed_version, latest_version, source) ==
    IF source \in {"local_detection", "local_fallback"}
    THEN IF source = "local_detection" THEN StatusDlc ELSE StatusLocal
    ELSE IF installed_version = latest_version THEN StatusUpToDate
    ELSE IF IsDigit(installed_version) /\ IsDigit(latest_version)
            /\ Len(installed_version) >= BuildIdMinLen
            /\ Len(latest_version) >= BuildIdMinLen
    THEN LET installed_build == ToInt(installed_version)
             latest_build == ToInt(latest_version)
         IN  IF installed_build < latest_build THEN StatusUpdate
             ELSE IF installed_build > latest_build THEN StatusNewer
             ELSE StatusUpToDate
    ELSE StatusDifferent

\* ClassifyResult without the overwrite of a local reference value
ClassifyResultNoOverwrite(game, version_info) ==
    LET got == IF version_info.latest_version = None THEN Unknown
               ELSE version_info.latest_version
        source == IF version_info.source = "" THEN "unknown"
                  ELSE version_info.source
    IN  [game EXCEPT !.latest_version = got,
                     !.changelog = version_info.changelog,
                     !.readable_version =
                         IF @ = Dash /\ version_info.readable_version # None
                         THEN version_info.readable_version ELSE @,
                     !.update_status =
                         IF game.installed_version = Unknown THEN StatusNoInstalled
                         ELSE IF got = Unknown THEN StatusNoLatest
                         ELSE CompareVersions(game.installed_version, got, source)]

\* the branch taken for a lookup result without 'error': the record takes
\* the result's latest_version and changelog, the catalog's readable
\* version if none was found on disk, and its status
ClassifyResult(game, version_info) ==
    LET got == IF version_info.latest_version = None THEN Unknown
               ELSE version_info.latest_version
        source == IF version_info.source = "" THEN "unknown"
                  ELSE version_info.source
        readable == IF game.readable_version = Dash
                       /\ version_info.readable_version # None
                    THEN version_info.readable_version
                    ELSE game.readable_version
        installed_version == IF game.installed_version = None THEN Unknown
                             ELSE game.installed_version
        status == IF installed_version = Unknown THEN StatusNoInstalled
                  ELSE IF got = Unknown THEN StatusNoLatest
                  ELSE CompareVersions(installed_version, got, source)
        latest == IF /\ installed_version # Unknown
                     /\ got # Unknown
                     /\ source \in {"local_detection", "local_fallback"}
                  THEN installed_version ELSE got
    IN  [game EXCEPT !.latest_version = latest,
                     !.changelog = version_info.changelog,
                     !.readable_version = readable,
                     !.update_status = status]

\* ClassifyGame whose error branch leaves latest_version as it was
ClassifyGameKeepsLatest(game, version_info) ==
    IF version_info.kind = "ok"
    THEN ClassifyResult(game, version_info)
    ELSE [game EXCEPT !.update_status = StatusNotInDb,
                      !.changelog = "Changelog not available"]

\* the record after the classification of one lookup result
ClassifyGame(game, version_info) ==
    IF version_info.kind = "ok"
    THEN ClassifyResult(game, version_info)
    ELSE [game EXCEPT !.update_status = StatusNotInDb,
                      !.latest_version = Unknown,
                      !.changelog = "Changelog not available"]

(***************************************************************************)
(* The update-check worker                                                 *)
(***************************************************************************)
VARIABLES
    games,             \* self.games, the list handed to UpdateCheckThread
    current_os,        \* what get_current_os returns on this machine
    pc,                \* where run is: "detect", "fetch", "done"
    i,                 \* index of the game the loop is at (from 1)
    detected_version,  \* run's locals, as left by the last iteration
    actual_gog_id,
    api_id,
    version_info,
    response,          \* the catalog's answer to the request of this iteration
    emitted,           \* the records sent with update_progress
    finished,          \* how many times the finished signal was sent
    registry_keys,     \* the registry keys _scan_registry goes through
    registry_games,    \* find_gog_games: what _scan_registry returned
    directory_games,   \* find_gog_games: what _scan_directories returned
    found_games,       \* GOGGameScanner.found_games
    version_str,       \* the argument of _clean_version_string / _is_valid_version
    clean_version,     \* what _clean_version_string returned
    valid,             \* what _is_valid_version returned
    installed_games,   \* MainWindow.installed_games
    scan_thread,       \* MainWindow.scan_thread: "none", "scanning", "found", "finished"
    update_thread,     \* MainWindow.update_thread: "none", "running", "finished"
    scan_button,       \* scan_button.isEnabled()
    update_button,     \* update_button.isEnabled()
    timers,            \* the QTimer.singleShot calls that have not fired yet
    events,            \* the signals queued for the window's thread, oldest first
    clicks,            \* how many times the user has clicked a button
    same_list,         \* update_thread.games is the list object installed_games
    run_game,          \* run's local game: the record the loop is working on
    game_listed,       \* that record is the one at self.games[i]
    started,           \* how many worker threads the window has started
    scan_no,           \* which of them self.scan_thread is (0: none)
    update_no,         \* which of them self.update_thread is (0: none)
    delivered,         \* the scan thread whose games_found was handled last
    written_by,        \* for each record of installed_games, the update-check
                       \* thread whose update_progress put it there (0: none)
    builds,            \* filter_builds_by_os: the builds it is called with
    target_os,         \* filter_builds_by_os: the operating system asked for
    filtered_builds,   \* what filter_builds_by_os returned
    game_name,         \* get_latest_version_info: the name it is called with
    is_dlc,            \* get_latest_version_info: its local is_dlc
    base_game_name,    \* get_latest_version_info: its local base_game_name
    listing,           \* what the file system holds at the path of a detection
    build_id           \* what the detection of the build id returned

scanVars == <<registry_keys, registry_games, directory_games, found_games>>

versionVars == <<version_str, clean_version, valid>>

guiVars == <<installed_games, scan_thread, update_thread, scan_button,
             update_button, timers, events, clicks, same_list, run_game,
             game_listed, started, scan_no, update_no, delivered, written_by>>

filterVars == <<builds, target_os, filtered_builds>>

dlcVars == <<game_name, is_dlc, base_game_name>>

detectVars == <<listing, build_id>>

helperVars == <<filterVars, dlcVars, detectVars>>

vars == <<games, current_os, pc, i, detected_version, actual_gog_id, api_id,
          version_info, response, emitted, finished, scanVars, versionVars,
          guiVars, helperVars>>

\* no scan has been made
ScannerIdle ==
    /\ registry_keys = << >>
    /\ registry_games = << >>
    /\ directory_games = << >>
    /\ found_games = << >>

\* no version string has been cleaned or validated
VersionIdle ==
    /\ version_str = None
    /\ clean_version = None
    /\ valid = FALSE

\* there is no window: no threads of its, no timers, no signals
GuiIdle ==
    /\ installed_games = << >>
    /\ scan_thread = "none"
    /\ update_thread = "none"
    /\ scan_button = TRUE
    /\ update_button = FALSE
    /\ timers = [scan_games |-> 0, check_updates |-> 0]
    /\ events = << >>
    /\ clicks = 0
    /\ same_list = FALSE
    /\ run_game = NoGame
    /\ game_listed = FALSE
    /\ started = 0
    /\ scan_no = 0
    /\ update_no = 0
    /\ delivered = 0
    /\ written_by = << >>

\* filter_builds_by_os has not been called on its own
FilterIdle ==
    /\ builds = << >>
    /\ target_os = OsWindows
    /\ filtered_builds = << >>

\* the DLC test of get_latest_version_info has not been made on its own
DlcIdle ==
    /\ game_name = None
    /\ is_dlc = FALSE
    /\ base_game_name = None

\* no detection of a build id has been made on its own
DetectIdle ==
    /\ listing = NoDirectory
    /\ build_id = None

\* no helper method of the worker has been called on its own
HelpersIdle == FilterIdle /\ DlcIdle /\ DetectIdle

\* the lists of at most n scanned games, one per lowercased name
GameLists(n) ==
    {l \in UNION {[1..k -> ScannedGames] : k \in 1..n} :
        \A a, b \in DOMAIN l : a # b => Lower(l[a].name) # Lower(l[b].name)}

Init ==
    /\ games \in GameLists(MaxGames)
    /\ current_os \in OSNames
    /\ pc = "detect"
    /\ i = 1
    /\ detected_version = None
    /\ actual_gog_id = None
    /\ api_id = None
    /\ version_info = NoResult
    /\ response = NoResponse
    /\ emitted = << >>
    /\ finished = 0
    /\ ScannerIdle
    /\ VersionIdle
    /\ GuiIdle
    /\ HelpersIdle

\* os.path.exists(install_path) raises TypeError: the path is no string but
\* a list, which is what winreg returns for an InstallLocation of type
\* REG_MULTI_SZ
RaisesTypeError(install_path) == install_path = "multi_sz"

\* DetectGame running the detection of every remaining game ahead of the
\* lookups
DetectGameAhead ==
    /\ pc = "detect"
    /\ i <= Len(games)
    /\ ~RaisesTypeError(games[i].install_path)
    /\ LET detected == DetectVersionFromGogFiles(games[i].install_path)
           actual == ActualGogId(games[i].install_path)
       IN  /\ detected_version' = detected
           /\ actual_gog_id' = actual
           /\ api_id' = IF actual # None THEN actual ELSE detected
           /\ games' = [k \in 1..Len(games) |->
                  IF k < i THEN games[k]
                  ELSE [games[k] EXCEPT
                     !.installed_version =
                         IF DetectVersionFromGogFiles(games[k].install_path) # None
                         THEN DetectVersionFromGogFiles(games[k].install_path) ELSE @,
                     !.gog_id =
                         IF /\ DetectVersionFromGogFiles(games[k].install_path) # None
                            /\ ActualGogId(games[k].install_path) # None
                         THEN ActualGogId(games[k].install_path) ELSE @,
                     !.readable_version =
                         IF DetectReadableVersionFromGogFiles(games[k].install_path) # None
                         THEN DetectReadableVersionFromGogFiles(games[k].install_path)
                         ELSE Dash]]
    /\ response' = NoResponse
    /\ pc' = "fetch"
    /\ UNCHANGED <<current_os, i, version_info, emitted, finished>>
    /\ UNCHANGED <<scanVars, versionVars, guiVars, helperVars>>

\* run, from the head of the loop to the choice of the id to query:
\* detection of build id, readable version and GOG id of game i
DetectGame ==
    /\ pc = "detect"
    /\ i <= Len(games)
    /\ ~RaisesTypeError(games[i].install_path)
    /\ LET game == games[i]
           detected == DetectVersionFromGogFiles(game.install_path)
           readable == DetectReadableVersionFromGogFiles(game.install_path)
           actual == ActualGogId(game.install_path)
       IN  /\ detected_version' = detected
           /\ actual_gog_id' = actual
           /\ api_id' = IF actual # None THEN actual ELSE detected
           /\ games' = [games EXCEPT ![i] =
                  [game EXCEPT
                     !.installed_version =
                         IF detected # None THEN detected ELSE @,
                     !.gog_id =
                         IF detected # None /\ actual # None THEN actual ELSE @,
                     !.readable_version =
                         IF readable # None THEN readable ELSE Dash]]
    /\ response' = NoResponse
    /\ pc' = "fetch"
    /\ UNCHANGED <<current_os, i, version_info, emitted, finished>>
    /\ UNCHANGED <<scanVars, versionVars, guiVars, helperVars>>

\* run, from get_latest_version_info to update_progress.emit: the request
\* (made only when there is an id to query), its fallbacks, the
\* classification and the emission of the record
FetchGame ==
    /\ pc = "fetch"
    /\ \E resp \in IF api_id # None THEN Responses ELSE {NoResponse} :
       \E notes \in IF resp.kind = "ok" /\ resp.builds # << >>
                    THEN BOOLEAN ELSE {FALSE} :
          LET info == GetLatestVersionInfo(games[i].name, api_id, resp,
                                           current_os, notes)
              game == ClassifyGame(games[i], info)
          IN  /\ response' = resp
              /\ version_info' = info
              /\ games' = [games EXCEPT ![i] = game]
              /\ emitted' = Append(emitted, game)
    /\ i' = i + 1
    /\ pc' = "detect"
    /\ UNCHANGED <<current_os, detected_version, actual_gog_id, api_id, finished>>
    /\ UNCHANGED <<scanVars, versionVars, guiVars, helperVars>>

\* run, after the loop: finished.emit()
FinishRun ==
    /\ pc = "detect"
    /\ i > Len(games)
    /\ finished' = finished + 1
    /\ pc' = "done"
    /\ UNCHANGED <<games, current_os, i, detected_version, actual_gog_id, api_id,
                   version_info, response, emitted>>
    /\ UNCHANGED <<scanVars, versionVars, guiVars, helperVars>>

\* run's handler for the exception escaping the loop without the emission of
\* finished
RaiseInRunSilent ==
    /\ pc = "detect"
    /\ i <= Len(games)
    /\ RaisesTypeError(games[i].install_path)
    /\ detected_version' = None
    /\ actual_gog_id' = None
    /\ pc' = "failed"
    /\ UNCHANGED <<games, current_os, i, api_id, version_info, response, emitted,
                   finished>>
    /\ UNCHANGED <<scanVars, versionVars, guiVars, helperVars>>

\* run, an exception escaping the loop body: os.path.exists(install_path)
\* at "Extract actual GOG ID" raises (the two detection methods have caught
\* the same exception and returned None), the try around the whole loop
\* catches it, and the handler emits finished; the loop is not resumed
RaiseInRun ==
    /\ pc = "detect"
    /\ i <= Len(games)
    /\ RaisesTypeError(games[i].install_path)
    /\ detected_version' = None
    /\ actual_gog_id' = None
    /\ finished' = finished + 1
    /\ pc' = "failed"
    /\ UNCHANGED <<games, current_os, i, api_id, version_info, response, emitted>>
    /\ UNCHANGED <<scanVars, versionVars, guiVars, helperVars>>

Next == DetectGame \/ FetchGame \/ FinishRun

Spec == Init /\ [][Next]_vars

(***************************************************************************)
(* An update check of several games, one of which may have an install      *)
(* path on which run raises                                                *)
(***************************************************************************)
\* number of games of a batch
MaxBatch == 2

BatchGames ==
    { AnalyzeGameDirectory("idonly", NameGwent),
      ScannedGame(NamePhantom, "Unknown", Ver1226),
      ScannedGame(NameMapPack, "multi_sz", Unknown) }

\* the lists of at most n games of the batch set, one per name
BatchLists(n) ==
    {l \in UNION {[1..k -> BatchGames] : k \in 1..n} :
        \A a, b \in DOMAIN l : a # b => Lower(l[a].name) # Lower(l[b].name)}

InitBatch ==
    /\ games \in BatchLists(MaxBatch)
    /\ current_os = OsWindows
    /\ pc = "detect"
    /\ i = 1
    /\ detected_version = None
    /\ actual_gog_id = None
    /\ api_id = None
    /\ version_info = NoResult
    /\ response = NoResponse
    /\ emitted = << >>
    /\ finished = 0
    /\ ScannerIdle
    /\ VersionIdle
    /\ GuiIdle
    /\ HelpersIdle

NextBatch == DetectGame \/ FetchGame \/ FinishRun \/ RaiseInRun

\* the worker thread is scheduled until run returns, and every request
\* returns or times out (urlopen(..., timeout=10))
SpecBatch == InitBatch /\ [][NextBatch]_vars /\ WF_vars(NextBatch)

(***************************************************************************)
(* An update check of one game whose readable version comes from each of   *)
(* the places the detection looks in: the metadata file, the executable,   *)
(* version.txt and the catalog.  The directory "zerostxt" has a            *)
(* version.txt with the line "build: 00001234", from which                 *)
(* _extract_version_from_text returns "00001234"; the executable of        *)
(* "zerosexe" has the FileVersion "00001234", which _get_exe_version       *)
(* returns when it asks PowerShell.                                        *)
(***************************************************************************)
ReadablePaths == {"build726", "build999", "idonly", "shortid", "zerostxt", "zerosexe"}

ReadableGames == {AnalyzeGameDirectory(p, n) : p \in ReadablePaths, n \in {NameGwent, NameMapPack}}

InitReadable ==
    /\ \E game \in ReadableGames : games = <<game>>
    /\ current_os \in OSNames
    /\ pc = "detect"
    /\ i = 1
    /\ detected_version = None
    /\ actual_gog_id = None
    /\ api_id = None
    /\ version_info = NoResult
    /\ response = NoResponse
    /\ emitted = << >>
    /\ finished = 0
    /\ ScannerIdle
    /\ VersionIdle
    /\ GuiIdle
    /\ HelpersIdle

SpecReadable == InitReadable /\ [][Next]_vars

(***************************************************************************)
(* The classification on its own: every installed version against every    *)
(* lookup result                                                           *)
(***************************************************************************)
InstalledVersions == {Unknown, Build726, Build999, GogIdShort, Ver1226, Build726Padded}

LatestVersions == {None, Unknown, Build726, Build999, GogIdShort, Ver1226, Build726Padded}

LookupResults ==
    {VersionInfo(l, "build_info", src, None, None) :
        l \in LatestVersions,
        src \in {"gogdb.org", "local_detection", "local_fallback", ""}}
      \cup {ErrorResult, NoResult}

InitClassify ==
    /\ \E n \in Names, v \in InstalledVersions :
          games = <<[ScannedGame(n, "Unknown", v) EXCEPT !.readable_version = Dash]>>
    /\ version_info \in LookupResults
    /\ current_os = OsWindows
    /\ pc = "classify"
    /\ i = 1
    /\ detected_version = None
    /\ actual_gog_id = None
    /\ api_id = None
    /\ response = NoResponse
    /\ emitted = << >>
    /\ finished = 0
    /\ ScannerIdle
    /\ VersionIdle
    /\ GuiIdle
    /\ HelpersIdle

ClassifyStep ==
    /\ pc = "classify"
    /\ games' = [games EXCEPT ![i] = ClassifyGame(games[i], version_info)]
    /\ i' = i + 1
    /\ pc' = "classified"
    /\ UNCHANGED <<current_os, detected_version, actual_gog_id, api_id,
                   version_info, response, emitted, finished>>
    /\ UNCHANGED <<scanVars, versionVars, guiVars, helperVars>>

NextClassify == ClassifyStep

SpecClassify == InitClassify /\ [][NextClassify]_vars

(***************************************************************************)
(* The scanner's deduplication on its own: find_gog_games on every pair    *)
(* of short candidate lists                                                *)
(***************************************************************************)
\* candidates per discovery source
MaxCandidates == 2

NameGwentUpper == <<"G", "W", "E", "N", "T">>

KeyGwent == <<"1", "2", "0", "7", "6", "5", "8", "9", "2", "4", "_", "i", "s", "1">>

\* registry keys: with a DisplayName, with an empty one, and without one
RegistryKeys ==
    {RegistryKey(KeyGwent, TRUE, n, p) :
        n \in {NameGwent, NameGwentUpper, None}, p \in {"Unknown", "build726"}}
      \cup {RegistryKey(KeyGwent, FALSE, None, p) : p \in {"Unknown", "build726"}}

\* game folders
DirectoryCandidates ==
    {AnalyzeGameDirectory(p, n) :
        p \in {"build726", "build999"}, n \in {NameGwent, NameGwentUpper, NameMapPack}}

CandidateLists(S, n) == UNION {[1..k -> S] : k \in 0..n}

\* the worker's variables of a program that checks no updates
WorkerIdle ==
    /\ games = << >>
    /\ current_os = OsWindows
    /\ i = 1
    /\ detected_version = None
    /\ actual_gog_id = None
    /\ api_id = None
    /\ version_info = NoResult
    /\ response = NoResponse
    /\ emitted = << >>
    /\ finished = 0

workerVars == <<games, current_os, i, detected_version, actual_gog_id, api_id,
                version_info, response, emitted, finished>>

InitScan ==
    /\ registry_keys \in CandidateLists(RegistryKeys, MaxCandidates)
    /\ registry_games = << >>
    /\ directory_games \in CandidateLists(DirectoryCandidates, MaxCandidates)
    /\ found_games = << >>
    /\ pc = "scan"
    /\ WorkerIdle
    /\ VersionIdle
    /\ GuiIdle
    /\ HelpersIdle

FindGogGamesStep ==
    /\ pc = "scan"
    /\ registry_games' = ScanRegistry(registry_keys)
    /\ found_games' = FindGogGames(registry_games', directory_games)
    /\ pc' = "scanned"
    /\ UNCHANGED <<registry_keys, directory_games, workerVars, versionVars, guiVars,
                   helperVars>>

NextScan == FindGogGamesStep

SpecScan == InitScan /\ [][NextScan]_vars

(***************************************************************************)
(* The two version-string functions on their own: every text of a set of   *)
(* prefixes followed by every text of a set of version bodies              *)
(***************************************************************************)
TxtVersionColon == <<"V", "e", "r", "s", "i", "o", "n", ":", " ">>
Ver1200 == <<"1", ".", "2", ".", "0", ".", "0">>
Ver12 == <<"1", ".", "2">>

\* what may precede the number in a registry value or a file
PrefixTexts ==
    { << >>,
      <<"v">>,
      <<"V">>,
      <<"v", "e", "r", " ">>,
      <<"V", "e", "r", ".">>,
      <<"V", "e", "r", "s", "i", "o", "n", ":", " ">>,
      <<"v", "e", "r", "s", "i", "o", "n", " ">>,
      <<"r", "e", "l", " ">>,
      <<"R", "e", "l", "e", "a", "s", "e", " ">> }

VersionBodies ==
    { <<"1", ".", "2", ".", "0", ".", "0">>,
      <<"1", ".", "2">>,
      <<"1", ".", "0", ".", "0">>,
      <<"1", ".", "2", ".", "2", "6">>,
      <<"1", ".", "2", ".", "3", ".", "4", ".", "5", ".", "6">>,
      <<"1", "0", "0", "0", "0", ".", "1">>,
      <<"9", "9", "9", "9", ".", "0", ".", "1">>,
      <<"-", "1", ".", "2">>,
      <<"+", "1", ".", "2">>,
      <<"1", ".", ".", "2">>,
      <<"1", ".", " ", "2">>,
      <<"a", "b", "c">>,
      << >> }

RawVersions == {p \o b : p \in PrefixTexts, b \in VersionBodies}

InitVersion ==
    /\ version_str \in RawVersions
    /\ clean_version = None
    /\ valid = FALSE
    /\ pc = "call"
    /\ WorkerIdle
    /\ ScannerIdle
    /\ GuiIdle
    /\ HelpersIdle

CleanVersionStep ==
    /\ pc = "call"
    /\ clean_version' = CleanVersionString(version_str)
    /\ pc' = "cleaned"
    /\ UNCHANGED <<version_str, valid, workerVars, scanVars, guiVars,
                   helperVars>>

IsValidVersionStep ==
    /\ pc = "call"
    /\ valid' = IsValidVersion(version_str)
    /\ pc' = "validated"
    /\ UNCHANGED <<version_str, clean_version, workerVars, scanVars, guiVars,
                   helperVars>>

NextVersion == CleanVersionStep \/ IsValidVersionStep

SpecVersion == InitVersion /\ [][NextVersion]_vars

(***************************************************************************)
(* filter_builds_by_os on its own: every short list of builds carrying     *)
(* one of the OS tags the function knows, or none, for every target        *)
(***************************************************************************)
\* builds per list
MaxBuilds == 2

OsWindowsCap == <<"W", "i", "n", "d", "o", "w", "s">>

\* the values of a build's 'os' field; None is a build without the field
OsTags == {OsWindows, OsWindowsCap, OsWin, OsPc, OsOsx, OsMac, OsMacos, OsDarwin,
           OsLinux, None}

TaggedBuilds == {Build(id, None, os) : id \in {Build726, Build999}, os \in OsTags}

TaggedBuildLists(n) == UNION {[1..k -> TaggedBuilds] : k \in 0..n}

InitFilter ==
    /\ builds \in TaggedBuildLists(MaxBuilds)
    /\ target_os \in OSNames
    /\ filtered_builds = << >>
    /\ pc = "filter"
    /\ WorkerIdle
    /\ ScannerIdle
    /\ VersionIdle
    /\ GuiIdle
    /\ DlcIdle
    /\ DetectIdle

FilterBuildsByOsStep ==
    /\ pc = "filter"
    /\ filtered_builds' = FilterBuildsByOs(builds, target_os)
    /\ pc' = "filtered"
    /\ UNCHANGED <<builds, target_os, workerVars, scanVars, versionVars, guiVars,
                   dlcVars, detectVars>>

NextFilter == FilterBuildsByOsStep

SpecFilter == InitFilter /\ [][NextFilter]_vars

(***************************************************************************)
(* The DLC test of get_latest_version_info on its own: names made of up to *)
(* MaxSegments words joined by the separators and keywords of the test     *)
(***************************************************************************)
\* words per name
MaxSegments == 3

Words == {<<"A">>, <<"B", "c">>}

\* what may stand between two words: the five keywords as the test spells
\* them, two of them capitalised, and three texts that are no keyword
Joiners ==
    { KwDash, KwColon, KwDlc, KwExpansion, KwPack,
      <<" ", "D", "L", "C">>,
      <<" ", "P", "a", "c", "k">>,
      <<" ">>, <<"-">>, <<":">> }

RECURSIVE JoinedNames(_)
JoinedNames(n) ==
    IF n = 1 THEN Words
    ELSE {a \o j \o w : a \in JoinedNames(n - 1), j \in Joiners, w \in Words}

PackageNames ==
    UNION {JoinedNames(n) : n \in 1..MaxSegments} \cup {NameGwent, NamePhantom, NameMapPack}

InitDlc ==
    /\ game_name \in PackageNames
    /\ is_dlc = FALSE
    /\ base_game_name = None
    /\ pc = "name"
    /\ WorkerIdle
    /\ ScannerIdle
    /\ VersionIdle
    /\ GuiIdle
    /\ FilterIdle
    /\ DetectIdle

\* get_latest_version_info, from its head to the choice of base_game_name
DlcStep ==
    /\ pc = "name"
    /\ is_dlc' = IsDLC(game_name)
    /\ base_game_name' = BaseGameName(game_name)
    /\ pc' = "named"
    /\ UNCHANGED <<game_name, workerVars, scanVars, versionVars, guiVars, filterVars,
                   detectVars>>

NextDlc == DlcStep

SpecDlc == InitDlc /\ [][NextDlc]_vars

(***************************************************************************)
(* The two detections of a build id on their own: every directory of up    *)
(* to MaxFiles metadata files, and the path at which there is none         *)
(***************************************************************************)
\* metadata files per directory
MaxFiles == 2

\* goggame-<stem>.info files: the stem numeric or not, each of the three
\* build fields absent, a build id, or (buildId, build) a 7-digit number
InfoFiles ==
    {[InfoFile(stem, buildId, << >>) EXCEPT !.build_id = build_id_field, !.build = build] :
        stem \in {GogIdLong, StemAbc},
        buildId \in {None, Build726, GogIdShort},
        build_id_field \in {None, Build999},
        build \in {None, Build999, GogIdShort}}

Listings ==
    {GameDirectory(files, None, None) :
        files \in UNION {[1..k -> InfoFiles] : k \in 0..MaxFiles}} \cup {NoDirectory}

InitDetect ==
    /\ listing \in Listings
    /\ build_id = None
    /\ pc = "path"
    /\ WorkerIdle
    /\ ScannerIdle
    /\ VersionIdle
    /\ GuiIdle
    /\ FilterIdle
    /\ DlcIdle

\* the update check detects the build id
DetectVersionFromGogFilesStep ==
    /\ pc = "path"
    /\ build_id' = DetectVersionFromGogFilesIn(listing)
    /\ pc' = "detected"
    /\ UNCHANGED <<listing, workerVars, scanVars, versionVars, guiVars, filterVars,
                   dlcVars>>

\* the scanner detects the build id
DetectGogMetadataVersionStep ==
    /\ pc = "path"
    /\ build_id' = DetectGogMetadataVersionIn(listing)
    /\ pc' = "analyzed"
    /\ UNCHANGED <<listing, workerVars, scanVars, versionVars, guiVars, filterVars,
                   dlcVars>>

NextDetect == DetectVersionFromGogFilesStep \/ DetectGogMetadataVersionStep

SpecDetect == InitDetect /\ [][NextDetect]_vars

(***************************************************************************)
(* The window and its two worker threads                                   *)
(*                                                                         *)
(* The handlers of MainWindow run one at a time in the window's thread:    *)
(* button clicks, QTimer.singleShot callbacks and the slots of the         *)
(* threads' signals, which Qt queues for the window's thread in the order  *)
(* of their emission.  The scan thread is its life cycle: started,         *)
(* signals emitted, returned.  The update-check thread is the loop of run  *)
(* over self.games, one step for the detection and one for the lookup and  *)
(* the emission of the record.  check_updates hands the list object        *)
(* self.installed_games itself to the thread, so what the window does to   *)
(* that list in place (clear, item assignment) is done to the list the     *)
(* thread iterates, until on_games_found binds self.installed_games to     *)
(* another list.  The games found have no install directory, so the        *)
(* lookup makes no request.  The deep-scan box is not ticked, so           *)
(* scan_games asks nothing.                                                *)
(***************************************************************************)
\* number of button clicks of the user
MaxClicks == 2

\* the names a scan may find
ScanResults == {<< >>, <<NameGwent>>, <<NameGwent, NameMapPack>>}

\* the records GameScanThread.run emits for these names
FoundGames(names) ==
    [k \in 1..Len(names) |-> ScannedGame(names[k], "Unknown", Unknown)]

\* a queued signal: its name, the thread that emitted it, what it carries
Signal(signal, sender, found) ==
    [signal |-> signal, sender |-> sender, games |-> found]

\* QThread.isRunning() of the two threads
ScanRunning == scan_thread \in {"scanning", "found"}

UpdateRunning == update_thread = "running"

\* MainWindow.__init__: nothing found yet, no threads, the update button
\* disabled, and auto_scan has set the timer of the first scan
InitGui ==
    /\ installed_games = << >>
    /\ scan_thread = "none"
    /\ update_thread = "none"
    /\ scan_button = TRUE
    /\ update_button = FALSE
    /\ timers = [scan_games |-> 1, check_updates |-> 0]
    /\ events = << >>
    /\ clicks = 0
    /\ same_list = FALSE
    /\ run_game = NoGame
    /\ game_listed = FALSE
    /\ started = 0
    /\ scan_no = 0
    /\ update_no = 0
    /\ delivered = 0
    /\ written_by = << >>
    /\ pc = "window"
    /\ WorkerIdle
    /\ ScannerIdle
    /\ VersionIdle
    /\ HelpersIdle

\* what the handlers leave alone of the update-check thread's run
runVars == <<games, i, pc, emitted, finished, run_game, game_listed>>

\* which thread is which, and which scan was delivered last
idVars == <<started, scan_no, update_no, delivered>>

\* the locals of run that the window never sees
runLocals == <<current_os, detected_version, actual_gog_id, api_id,
               version_info, response>>

\* MainWindow.scan_games, as it acts on the scan thread and the buttons
ScanGames ==
    IF ScanRunning
    THEN UNCHANGED <<scan_thread, scan_button, update_button, started, scan_no>>
    ELSE /\ scan_button' = FALSE
         /\ update_button' = FALSE
         /\ scan_thread' = "scanning"
         /\ started' = started + 1
         /\ scan_no' = started + 1

\* MainWindow.check_updates: the new thread is handed self.installed_games
\* and its run starts at the head of the loop
CheckUpdates ==
    IF installed_games = << >> \/ UpdateRunning
    THEN UNCHANGED <<update_thread, scan_button, update_button, same_list,
                     started, update_no, runVars>>
    ELSE /\ update_button' = FALSE
         /\ scan_button' = FALSE
         /\ update_thread' = "running"
         /\ started' = started + 1
         /\ update_no' = started + 1
         /\ games' = installed_games
         /\ same_list' = TRUE
         /\ i' = 1
         /\ pc' = "detect"
         /\ emitted' = << >>
         /\ finished' = 0
         /\ run_game' = NoGame
         /\ game_listed' = FALSE

\* the timer set by auto_scan fires
TimerScanGames ==
    /\ timers.scan_games > 0
    /\ timers' = [timers EXCEPT !.scan_games = @ - 1]
    /\ ScanGames
    /\ UNCHANGED <<installed_games, update_thread, events, clicks, same_list,
                   update_no, delivered, written_by>>
    /\ UNCHANGED <<runVars, runLocals, scanVars, versionVars, helperVars>>

\* a timer set by on_scan_finished fires
TimerCheckUpdates ==
    /\ timers.check_updates > 0
    /\ timers' = [timers EXCEPT !.check_updates = @ - 1]
    /\ CheckUpdates
    /\ UNCHANGED <<installed_games, scan_thread, events, clicks, scan_no,
                   delivered, written_by>>
    /\ UNCHANGED <<runLocals, scanVars, versionVars, helperVars>>

\* the user clicks "Scan Games", which is enabled
ClickScan ==
    /\ clicks < MaxClicks
    /\ scan_button
    /\ clicks' = clicks + 1
    /\ ScanGames
    /\ UNCHANGED <<installed_games, update_thread, timers, events, same_list,
                   update_no, delivered, written_by>>
    /\ UNCHANGED <<runVars, runLocals, scanVars, versionVars, helperVars>>

\* the user clicks "Check Updates", which is enabled
ClickUpdate ==
    /\ clicks < MaxClicks
    /\ update_button
    /\ clicks' = clicks + 1
    /\ CheckUpdates
    /\ UNCHANGED <<installed_games, scan_thread, timers, events, scan_no,
                   delivered, written_by>>
    /\ UNCHANGED <<runLocals, scanVars, versionVars, helperVars>>

\* the user clicks "Refresh", which nothing ever disables:
\* MainWindow.refresh_all.  self.installed_games.clear() empties the list
\* object, which is the list of the update-check thread when that thread
\* was handed it; the record the thread is working on is no longer in it
ClickRefresh ==
    /\ clicks < MaxClicks
    /\ clicks' = clicks + 1
    /\ installed_games' = << >>
    /\ written_by' = << >>
    /\ games' = IF same_list THEN << >> ELSE games
    /\ game_listed' = IF same_list THEN FALSE ELSE game_listed
    /\ ScanGames
    /\ UNCHANGED <<update_thread, timers, events, same_list, update_no,
                   delivered>>
    /\ UNCHANGED <<i, pc, emitted, finished, run_game>>
    /\ UNCHANGED <<runLocals, scanVars, versionVars, helperVars>>

\* GameScanThread.run up to games_found.emit(games)
ScanThreadFound ==
    /\ scan_thread = "scanning"
    /\ \E found \in ScanResults :
          events' = Append(events,
                           Signal("games_found", scan_no, FoundGames(found)))
    /\ scan_thread' = "found"
    /\ UNCHANGED <<installed_games, update_thread, scan_button, update_button,
                   timers, clicks, same_list, idVars, written_by>>
    /\ UNCHANGED <<runVars, runLocals, scanVars, versionVars, helperVars>>

\* GameScanThread.run returns, after games_found or from its exception
\* handler, and the thread emits QThread.finished
ScanThreadReturn ==
    /\ ScanRunning
    /\ events' = Append(events, Signal("scan_finished", scan_no, << >>))
    /\ scan_thread' = "finished"
    /\ UNCHANGED <<installed_games, update_thread, scan_button, update_button,
                   timers, clicks, same_list, idVars, written_by>>
    /\ UNCHANGED <<runVars, runLocals, scanVars, versionVars, helperVars>>

\* UpdateCheckThread.run, the head of the loop and the detection: the list
\* iterator yields self.games[i] while i is within the list as it is now,
\* and the detection writes into that record, which is in the list
UpdateThreadDetect ==
    /\ UpdateRunning
    /\ pc = "detect"
    /\ i <= Len(games)
    /\ LET detected == DetectVersionFromGogFiles(games[i].install_path)
           readable == DetectReadableVersionFromGogFiles(games[i].install_path)
           actual == ActualGogId(games[i].install_path)
           record == [games[i] EXCEPT
                        !.installed_version =
                            IF detected # None THEN detected ELSE @,
                        !.gog_id =
                            IF detected # None /\ actual # None
                            THEN actual ELSE @,
                        !.readable_version =
                            IF readable # None THEN readable ELSE Dash]
       IN  /\ detected_version' = detected
           /\ actual_gog_id' = actual
           /\ api_id' = IF actual # None THEN actual ELSE detected
           /\ run_game' = record
           /\ games' = [games EXCEPT ![i] = record]
    /\ game_listed' = TRUE
    /\ installed_games' = IF same_list THEN games' ELSE installed_games
    /\ response' = NoResponse
    /\ pc' = "fetch"
    /\ UNCHANGED <<scan_thread, update_thread, scan_button, update_button,
                   timers, events, clicks, same_list, idVars, written_by>>
    /\ UNCHANGED <<current_os, i, version_info, emitted, finished>>
    /\ UNCHANGED <<scanVars, versionVars, helperVars>>

\* UpdateCheckThread.run, from get_latest_version_info to
\* update_progress.emit(game.copy()): the classification writes into the
\* record the thread holds, wherever that record still is
UpdateThreadFetch ==
    /\ UpdateRunning
    /\ pc = "fetch"
    /\ \E resp \in IF api_id # None THEN Responses ELSE {NoResponse} :
       \E notes \in IF resp.kind = "ok" /\ resp.builds # << >>
                    THEN BOOLEAN ELSE {FALSE} :
          LET info == GetLatestVersionInfo(run_game.name, api_id, resp,
                                           current_os, notes)
              record == ClassifyGame(run_game, info)
          IN  /\ response' = resp
              /\ version_info' = info
              /\ run_game' = record
              /\ games' = IF game_listed
                          THEN [games EXCEPT ![i] = record] ELSE games
              /\ emitted' = Append(emitted, record)
              /\ events' = Append(events,
                     Signal("update_progress", update_no, record))
    /\ installed_games' = IF same_list THEN games' ELSE installed_games
    /\ game_listed' = FALSE
    /\ i' = i + 1
    /\ pc' = "detect"
    /\ UNCHANGED <<scan_thread, update_thread, scan_button, update_button,
                   timers, clicks, same_list, idVars, written_by>>
    /\ UNCHANGED <<current_os, detected_version, actual_gog_id, api_id,
                   finished>>
    /\ UNCHANGED <<scanVars, versionVars, helperVars>>

\* UpdateCheckThread.run, after the loop: the list iterator is exhausted
\* when i is beyond the list as it is now; finished.emit() and return
UpdateThreadReturn ==
    /\ UpdateRunning
    /\ pc = "detect"
    /\ i > Len(games)
    /\ events' = Append(events, Signal("update_finished", update_no, << >>))
    /\ update_thread' = "finished"
    /\ finished' = finished + 1
    /\ pc' = "done"
    /\ UNCHANGED <<installed_games, scan_thread, scan_button, update_button,
                   timers, clicks, same_list, idVars, written_by>>
    /\ UNCHANGED <<games, i, emitted, run_game, game_listed>>
    /\ UNCHANGED <<runLocals, scanVars, versionVars, helperVars>>

\* MainWindow.on_games_found: self.installed_games is bound to the list of
\* the scan, which is not the list of any update-check thread
OnGamesFound ==
    /\ events # << >>
    /\ Head(events).signal = "games_found"
    /\ installed_games' = Head(events).games
    /\ same_list' = FALSE
    /\ delivered' = Head(events).sender
    /\ written_by' = [k \in 1..Len(Head(events).games) |-> 0]
    /\ events' = Tail(events)
    /\ UNCHANGED <<scan_thread, update_thread, scan_button, update_button,
                   timers, clicks, started, scan_no, update_no>>
    /\ UNCHANGED <<runVars, runLocals, scanVars, versionVars, helperVars>>

\* the index of the first record of the list that has the name, 0 if none
FirstWithName(list, name) ==
    IF \E k \in 1..Len(list) : list[k].name = name
    THEN CHOOSE k \in 1..Len(list) :
            /\ list[k].name = name
            /\ \A j \in 1..(k - 1) : list[j].name # name
    ELSE 0

\* MainWindow.on_update_progress: the first record of self.installed_games
\* with the name of the emitted record is replaced by the emitted record;
\* when the list is the thread's, the record the thread holds is no longer
\* in the list if it was at that place
OnUpdateProgress ==
    /\ events # << >>
    /\ Head(events).signal = "update_progress"
    /\ LET record == Head(events).games
           k == FirstWithName(installed_games, record.name)
       IN  /\ installed_games' =
                  IF k = 0 THEN installed_games
                  ELSE [installed_games EXCEPT ![k] = record]
           /\ written_by' =
                  IF k = 0 THEN written_by
                  ELSE [written_by EXCEPT ![k] = Head(events).sender]
           /\ games' = IF same_list THEN installed_games' ELSE games
           /\ game_listed' =
                  IF same_list /\ k # 0 /\ k = i THEN FALSE ELSE game_listed
    /\ events' = Tail(events)
    /\ UNCHANGED <<scan_thread, update_thread, scan_button, update_button,
                   timers, clicks, same_list, idVars>>
    /\ UNCHANGED <<i, pc, emitted, finished, run_game>>
    /\ UNCHANGED <<runLocals, scanVars, versionVars, helperVars>>

\* MainWindow.on_scan_finished
OnScanFinished ==
    /\ events # << >>
    /\ Head(events).signal = "scan_finished"
    /\ events' = Tail(events)
    /\ scan_button' = TRUE
    /\ update_button' = IF installed_games # << >> THEN TRUE ELSE update_button
    /\ timers' = IF installed_games # << >>
                  THEN [timers EXCEPT !.check_updates = @ + 1] ELSE timers
    /\ UNCHANGED <<installed_games, scan_thread, update_thread, clicks,
                   same_list, idVars, written_by>>
    /\ UNCHANGED <<runVars, runLocals, scanVars, versionVars, helperVars>>

\* MainWindow.on_update_finished
OnUpdateFinished ==
    /\ events # << >>
    /\ Head(events).signal = "update_finished"
    /\ events' = Tail(events)
    /\ update_button' = TRUE
    /\ scan_button' = TRUE
    /\ UNCHANGED <<installed_games, scan_thread, update_thread, timers, clicks,
                   same_list, idVars, written_by>>
    /\ UNCHANGED <<runVars, runLocals, scanVars, versionVars, helperVars>>

NextGui ==
    \/ TimerScanGames
    \/ TimerCheckUpdates
    \/ ClickScan
    \/ ClickUpdate
    \/ ClickRefresh
    \/ ScanThreadFound
    \/ ScanThreadReturn
    \/ UpdateThreadDetect
    \/ UpdateThreadFetch
    \/ UpdateThreadReturn
    \/ OnGamesFound
    \/ OnUpdateProgress
    \/ OnScanFinished
    \/ OnUpdateFinished

SpecGui == InitGui /\ [][NextGui]_vars

(***************************************************************************)
(* Properties                                                              *)
(***************************************************************************)
StatusEnum ==
    {StatusNoInstalled, StatusNoLatest, StatusDlc, StatusLocal, StatusUpToDate,
     StatusUpdate, StatusNewer, StatusDifferent, StatusNotInDb}

LocalSources == {"local_detection", "local_fallback"}

\* run has just classified and emitted a game; its locals are that game's
JustChecked == pc \in {"detect", "done"} /\ i > 1

\* the game run has just classified
Last == games[i - 1]

\* the request of this iteration failed
RemoteFailed == response.kind \in FailureKinds

\* C1: whatever the installed version, the latest version and the outcome
\* of the lookup, the classification leaves the record with exactly one
\* update_status, one of the nine values of the enum; no status is set
\* before the classification.
C1_ClassifierTotal ==
    /\ Cardinality(StatusEnum) = 9
    /\ pc = "classify" => games[1].update_status = ""
    /\ pc = "classified" => games[1].update_status \in StatusEnum

C1_Witness ==
    /\ pc = "classified"
    /\ version_info.source = "gogdb.org"
    /\ games[1].installed_version = Ver1226
    /\ games[1].update_status = StatusNoLatest

\* C2: a record whose installed_version is "Unknown" when it is classified
\* gets 'Cannot Check - No Installed Version', whatever the lookup returned,
\* a lookup error included.
C2_RuleOneAlwaysWins ==
    JustChecked /\ Last.installed_version = Unknown
        => Last.update_status = StatusNoInstalled

\* C3: for a catalog result, two different build ids are compared as
\* numbers: a smaller installed one gives 'Update Available', a larger one
\* 'Newer Version Installed'.
C3_BuildIdsComparedNumerically ==
    ( /\ JustChecked
      /\ version_info.source = "gogdb.org"
      /\ IsBuildId(Last.installed_version)
      /\ IsBuildId(version_info.latest_version)
      /\ Last.installed_version # version_info.latest_version )
    => /\ ToInt(Last.installed_version) < ToInt(version_info.latest_version)
            => Last.update_status = StatusUpdate
       /\ ToInt(Last.installed_version) > ToInt(version_info.latest_version)
            => Last.update_status = StatusNewer

C3_Witness ==
    /\ JustChecked
    /\ version_info.source = "gogdb.org"
    /\ Last.installed_version = Build726
    /\ Last.latest_version = Build999
    /\ Last.update_status = StatusUpdate

\* C4: for a catalog result, a known installed version equal to a known
\* latest version gives 'Up to Date'.
C4_EqualIsUpToDate ==
    ( /\ JustChecked
      /\ version_info.source = "gogdb.org"
      /\ Last.installed_version # Unknown
      /\ version_info.latest_version # Unknown
      /\ Last.installed_version = version_info.latest_version )
    => Last.update_status = StatusUpToDate

C4_Witness ==
    /\ JustChecked
    /\ version_info.source = "gogdb.org"
    /\ Last.installed_version = Build726
    /\ Last.latest_version = Build726
    /\ Last.update_status = StatusUpToDate

\* C5: a record with a known installed version that is classified from a
\* local-only source gets 'DLC - Base Game Reference' exactly when its name
\* is a DLC name and 'Local Reference Only' otherwise, whether or not the
\* reference value equals the installed version.
C5_LocalSourceStatus ==
    ( /\ JustChecked
      /\ version_info.source \in LocalSources
      /\ Last.installed_version # Unknown )
    => /\ Last.update_status \in {StatusDlc, StatusLocal}
       /\ Last.update_status = StatusDlc <=> IsDLC(Last.name)
       /\ Last.update_status = StatusLocal <=> ~IsDLC(Last.name)

C5_Witness ==
    /\ JustChecked
    /\ version_info.source = "local_detection"
    /\ Last.name = NamePhantom
    /\ version_info.latest_version # Last.installed_version
    /\ Last.update_status = StatusDlc

C7_LookupErrorIsNotInDatabase ==
    JustChecked
    => /\ version_info.kind = "error" <=> api_id = None
       /\ version_info.kind = "error"
            => /\ Last.update_status = StatusNotInDb
               /\ Last.latest_version = Unknown

C7_Witness ==
    /\ JustChecked
    /\ version_info.kind = "error"
    /\ Last.installed_version = Ver1226
    /\ Last.update_status = StatusNotInDb

\* C8: when the request fails for a game with a known catalog id, the
\* synthesized result is a local one whose latest_version is the record's
\* installed_version.
C8_FallbackCarriesInstalled ==
    ( JustChecked /\ RemoteFailed )
    => /\ version_info.source \in LocalSources
       /\ version_info.latest_version = Last.installed_version

\* C9: a well-formed answer without builds does not start the local
\* fallback: the source is neither local_detection nor local_fallback.
C9_EmptyBuildsIsNoFailure ==
    ( JustChecked /\ response.kind = "ok" /\ response.builds = << >> )
    => version_info.source \notin LocalSources

\* C10: whichever way the request fails, the game gets the same source,
\* the same latest_version and the same update_status: they are determined
\* by the game's name, the id queried and its installed version alone.
C10_FailuresFunnel ==
    ( JustChecked /\ RemoteFailed )
    => /\ version_info.kind = "ok"
       /\ version_info.source =
            IF IsDLC(Last.name) THEN "local_detection" ELSE "local_fallback"
       /\ version_info.latest_version = api_id
       /\ Last.latest_version =
            IF Last.installed_version = Unknown THEN api_id
            ELSE Last.installed_version
       /\ Last.update_status =
            IF Last.installed_version = Unknown THEN StatusNoInstalled
            ELSE IF IsDLC(Last.name) THEN StatusDlc ELSE StatusLocal

C10_Witness ==
    /\ JustChecked
    /\ response.kind = "http_404"
    /\ Last.name = NameGwent
    /\ version_info.source = "local_fallback"
    /\ Last.update_status = StatusLocal

\* the candidates of a scan, registry first
AllCandidates == registry_games \o directory_games

\* the lowercased names among the candidates
CandidateKeys == {Lower(AllCandidates[k].name) : k \in 1..Len(AllCandidates)}

\* the first candidate with the lowercased name key
FirstCandidate(key) ==
    AllCandidates[CHOOSE k \in 1..Len(AllCandidates) :
        /\ Lower(AllCandidates[k].name) = key
        /\ \A j \in 1..(k - 1) : Lower(AllCandidates[j].name) # key]

\* found_games holds one record for key, the first candidate of that name
OneRecordFirstSeen(key) ==
    /\ Cardinality({k \in 1..Len(found_games) : Lower(found_games[k].name) = key}) = 1
    /\ \E k \in 1..Len(found_games) : found_games[k] = FirstCandidate(key)

\* C11, as claimed: after find_gog_games the result holds exactly one record
\* for every lowercased name among the candidates, the first-discovered one
\* (registry before directory), and nothing else.
C11_OnePerNameFirstSeen ==
    pc = "scanned"
    => /\ \A key \in CandidateKeys : OneRecordFirstSeen(key)
       /\ Len(found_games) = Cardinality(CandidateKeys)

\* C11, amended: the same for every non-empty lowercased name; a candidate
\* whose name is empty is dropped.
C11_OnePerNonEmptyNameFirstSeen ==
    pc = "scanned"
    => /\ \A key \in CandidateKeys \ {None} : OneRecordFirstSeen(key)
       /\ Len(found_games) = Cardinality(CandidateKeys \ {None})

\* two candidates of one lowercased name and different paths, one record
C11_Witness ==
    /\ pc = "scanned"
    /\ Len(registry_games) = 1
    /\ registry_games[1].name = NameGwentUpper
    /\ registry_games[1].install_path = "Unknown"
    /\ Len(directory_games) = 2
    /\ directory_games[1].name = NameGwent
    /\ directory_games[1].install_path = "build726"
    /\ directory_games[2].name = NameMapPack
    /\ Len(found_games) = 2
    /\ found_games[1].install_path = "Unknown"

\* a digit string of at least 8 characters
DigitsOfBuildIdLength(s) == IsDigit(s) /\ Len(s) >= 8

\* both values the classifier compared are build ids
BothBuildIds ==
    /\ DigitsOfBuildIdLength(Last.installed_version)
    /\ DigitsOfBuildIdLength(version_info.latest_version)

IsKnownPrefix(p) ==
    Lower(p) \in {PrefixV, PrefixVer, PrefixVersion, PrefixRel, PrefixRelease}

\* the version_str is a known prefix, separator punctuation and body
PrefixedBody(body) ==
    \E p \in PrefixTexts :
        /\ version_str = p \o body
        /\ IsKnownPrefix(StripChars(p, {".", ":", " "}))

\* C13: clean of a known prefix followed by separator punctuation and a
\* body is clean of the body, in which trailing '.0' segments beyond two
\* components are dropped; clean("Version: 1.2.0.0") = "1.2" and
\* clean("1.2.0.0") = "1.2".
C13_CleanStripsPrefixes ==
    pc = "cleaned"
    => /\ version_str = TxtVersionColon \o Ver1200 => clean_version = Ver12
       /\ version_str = Ver1200 => clean_version = Ver12
       /\ \A body \in VersionBodies :
              PrefixedBody(body) => clean_version = CleanVersionString(body)

\* a segment is a run of digits
SegmentIsNumeric(segment) == IsDigit(segment)

\* is_valid as the claim words it
ClaimedValid(s) ==
    /\ s # None
    /\ Len(SplitDots(s)) <= 5
    /\ \A k \in 1..Len(SplitDots(s)) :
          /\ SegmentIsNumeric(SplitDots(s)[k])
          /\ DigitsToInt(SplitDots(s)[k]) <= 9999

\* C14: is_valid(s) is false when s is empty, has more than 5 segments,
\* has a segment that is not a run of digits (an empty or a signed one
\* included) or a segment above 9999, and true otherwise.
C14_IsValidAsClaimed ==
    pc = "validated" => (valid <=> ClaimedValid(version_str))

\* the build try_gogdb_api takes from the answer of this iteration
SelectedBuild ==
    LET os_builds == FilterBuildsByOs(response.builds, current_os)
    IN  IF os_builds # << >> THEN os_builds[Len(os_builds)]
        ELSE response.builds[Len(response.builds)]

\* the first metadata file of the directory of the game just checked
FirstInfoFile == Directory(Last.install_path).files[1]

\* the detection read a goggame-<id>.info file
ReadInfoFile ==
    /\ Directory(Last.install_path).exists
    /\ Directory(Last.install_path).files # << >>
    /\ StemMatches(FirstInfoFile)

\* C15: the detection, the lookup and the classification all take for a
\* build id exactly the strings of digits of length 8 or more: "49183726"
\* is one, "1.2.26" and the 7-digit "1234567" are not.  The detection
\* returns the buildId field exactly when it is one, the lookup gives the
\* selected build's id as latest_version exactly when it is one and never a
\* readable version that is one, and the classification compares as
\* numbers exactly when both values are.
C15_OneBuildIdPredicate ==
    /\ IsBuildId(Build726) /\ ~IsBuildId(Ver1226) /\ ~IsBuildId(GogIdShort)
    /\ ( JustChecked /\ ReadInfoFile )
         => detected_version = IF DigitsOfBuildIdLength(FirstInfoFile.buildId)
                               THEN FirstInfoFile.buildId ELSE FirstInfoFile.stem
    /\ ( JustChecked /\ version_info.source = "gogdb.org" )
         => /\ version_info.latest_version =
                  IF DigitsOfBuildIdLength(SelectedBuild.id) THEN SelectedBuild.id
                  ELSE api_id
            /\ ~DigitsOfBuildIdLength(version_info.readable_version)
            /\ ( /\ Last.installed_version # Unknown
                 /\ Last.installed_version # version_info.latest_version )
                 => ( Last.update_status \in {StatusUpdate, StatusNewer}
                        <=> BothBuildIds )

\* a 7-digit id of the selected build is not taken for a build id
C15_Witness ==
    /\ JustChecked
    /\ version_info.source = "gogdb.org"
    /\ SelectedBuild.id = GogIdShort
    /\ api_id = GogIdLong
    /\ version_info.latest_version = GogIdLong
    /\ FirstInfoFile.buildId = Build726
    /\ detected_version = Build726

\* the builds of the answer tagged for this machine's operating system
OsBuilds == FilterBuildsByOs(response.builds, current_os)

\* what the lookup result carries of a build: its id as latest_version if
\* a build id (the queried id otherwise), its version as readable version
\* if there is one that is no build id
CarriesBuild(build) ==
    /\ version_info.latest_version = IF IsBuildId(build.id) THEN build.id ELSE api_id
    /\ response.version = None
         => version_info.readable_version =
              IF build.version # None /\ ~IsBuildId(build.version)
              THEN build.version ELSE None

\* C20: for an answer with a non-empty builds list the result is made from
\* the last build of the OS-filtered list if that list is not empty, and
\* from the last build of the whole list otherwise, whatever its OS tag
\* and whatever the ids: the list is not sorted.
C20_LastBuildSelected ==
    ( JustChecked /\ response.kind = "ok" /\ response.builds # << >> )
    => /\ version_info.source = "gogdb.org"
       /\ OsBuilds # << >> => CarriesBuild(OsBuilds[Len(OsBuilds)])
       /\ OsBuilds = << >> => CarriesBuild(response.builds[Len(response.builds)])

\* no build for this machine: the last build of the list, which is tagged
\* for another system and is not the one with the greatest id
C20_Witness ==
    /\ JustChecked
    /\ current_os = OsOsx
    /\ response.kind = "ok"
    /\ response.builds = <<Build(Build999, Build999, OsWindows),
                            Build(Build726, None, OsLinux)>>
    /\ version_info.latest_version = Build726

\* the games whose request to the catalog is in flight
InFlight == {k \in 1..Len(games) : pc = "fetch" /\ i = k /\ api_id # None}

\* nothing of an update check has touched game k
Untouched(k) ==
    /\ games[k].readable_version = None
    /\ games[k].update_status = ""
    /\ games[k].latest_version = None

\* C16: the games are processed one at a time in the order of the list:
\* when the loop is at game i, the records of the games before it, and no
\* others, have been emitted, in order and as they are in the list; no
\* game after it has been touched by a detection or a lookup; and at most
\* one request is in flight.
C16_OneAtATimeInOrder ==
    /\ Len(emitted) = i - 1
    /\ \A k \in 1..Len(emitted) : emitted[k] = games[k]
    /\ \A k \in (i + 1)..Len(games) : Untouched(k)
    /\ pc = "detect" /\ i <= Len(games) => Untouched(i)
    /\ Cardinality(InFlight) <= 1

\* the second game's request is in flight, the first game's record is out
C16_Witness ==
    /\ pc = "fetch"
    /\ i = 2
    /\ InFlight = {2}
    /\ Len(emitted) = 1
    /\ emitted[1].name = games[1].name
    /\ emitted[1].update_status \in StatusEnum

\* run has returned
RunOver == pc \in {"done", "failed"}

\* C17: every update check emits finished exactly once: never twice,
\* eventually once, both when the loop completes and when an exception
\* cuts it short; no record is emitted after it; and a run without an
\* exception has emitted one record per game, in order, before it.
C17_FinishedExactlyOnce ==
    /\ [](finished <= 1)
    /\ [](finished = 1 <=> RunOver)
    /\ <>(finished = 1)
    /\ [][finished = 1 => emitted' = emitted]_vars
    /\ [](pc = "done" =>
            /\ Len(emitted) = Len(games)
            /\ \A k \in 1..Len(games) : emitted[k].name = games[k].name)

\* a run cut short at its second game: one record, then finished
C17_Witness ==
    /\ pc = "failed"
    /\ Len(games) = 2
    /\ Len(emitted) = 1
    /\ finished = 1

\* C18: an error on one game fails that game only: when run has returned,
\* every game of the list has been given a status and its record has been
\* emitted.
C18_BatchContinues ==
    RunOver
    => /\ \A k \in 1..Len(games) : games[k].update_status \in StatusEnum
       /\ Len(emitted) = Len(games)

\* C19: a scan worker and an update-check worker are never running at the
\* same time, whatever the user clicks and whenever the timers fire.
C19_OneWorkerAtATime == ~(ScanRunning /\ UpdateRunning)

\* the names by which an OS tag denotes each operating system
OsVariants(os) ==
    CASE os = OsWindows -> {OsWindows, OsWin, OsPc}
      [] os = OsOsx -> {OsOsx, OsMac, OsMacos, OsDarwin}
      [] os = OsLinux -> {OsLinux}

\* the build carries an OS tag and the tag denotes the operating system os
DenotesOs(build, os) == build.os # None /\ Lower(build.os) \in OsVariants(os)

\* C21: filter_builds_by_os returns, in their original order, exactly the
\* builds whose OS tag denotes the target operating system; a build tagged
\* for another operating system or carrying no tag is never included.
C21_FilterKeepsTargetOsOnly ==
    pc = "filtered"
        => filtered_builds = SelectSeq(builds, LAMBDA build : DenotesOs(build, target_os))

\* C22: the latest_version of a catalog result is the selected build's id
\* when that id is a build id, and the id the request was made with
\* otherwise; it is a non-empty string that is neither "Unknown" nor the
\* build's dotted version.
C22_CatalogLatestVersion ==
    ( JustChecked /\ version_info.source = "gogdb.org" )
    => /\ IsBuildId(SelectedBuild.id) => version_info.latest_version = SelectedBuild.id
       /\ ~IsBuildId(SelectedBuild.id) => version_info.latest_version = api_id
       /\ version_info.latest_version # None
       /\ version_info.latest_version # Unknown
       /\ Contains(<<".">>, SelectedBuild.version)
            => version_info.latest_version # SelectedBuild.version
       /\ Last.latest_version = version_info.latest_version

\* the selected build has a 7-digit id and the version 2.0: the result
\* carries the id that was queried
C22_Witness ==
    /\ JustChecked
    /\ response.builds = <<Build(GogIdShort, Ver20, OsWindows)>>
    /\ version_info.source = "gogdb.org"
    /\ api_id = GogIdLong
    /\ version_info.latest_version = GogIdLong
    /\ version_info.readable_version = Ver20

\* the positions at which the name has one of the two separators
SeparatorsAt(name) == Occurrences(KwDash, name) \cup Occurrences(KwColon, name)

\* the part of the name before the separator that occurs first in it
BeforeFirstSeparator(name) ==
    LET k == CHOOSE a \in SeparatorsAt(name) : \A b \in SeparatorsAt(name) : a <= b
    IN  SubSeq(name, 1, k - 1)

\* C23: a name is DLC iff it contains, without regard to case, one of
\* ' - ', ': ', ' dlc', ' expansion', ' pack'; the base-game name of a DLC
\* name with a separator is the part before the separator that occurs
\* first in the name, and "Cyberpunk 2077: Phantom Liberty" gives
\* "Cyberpunk 2077".
C23_DlcAndBaseName ==
    pc = "named"
    => /\ is_dlc <=> \E kw \in {KwDash, KwColon, KwDlc, KwExpansion, KwPack} :
                        Contains(kw, Lower(game_name))
       /\ is_dlc /\ SeparatorsAt(game_name) # {}
            => base_game_name = BeforeFirstSeparator(game_name)
       /\ game_name = NamePhantom => base_game_name = BaseCyberpunk

\* C24: every record find_gog_games returns has a non-empty name: a
\* registry key without a DisplayName gives a candidate named by the key,
\* a folder gives a candidate named by the folder, and a candidate whose
\* name is empty (a key with an empty DisplayName) is not in the result.
C24_NamesNeverEmpty ==
    pc = "scanned"
    => /\ \A k \in 1..Len(found_games) : found_games[k].name # None
       /\ \A k \in 1..Len(registry_keys) :
              ~registry_keys[k].has_display_name
                  => /\ registry_games[k].name = registry_keys[k].game_key
                     /\ registry_games[k].name # None
       /\ \A k \in 1..Len(directory_games) : directory_games[k].name # None
       /\ \A k \in 1..Len(AllCandidates) :
              AllCandidates[k].name = None
                  => ~\E j \in 1..Len(found_games) : found_games[j] = AllCandidates[k]

\* a key with an empty DisplayName and a key without one: one record,
\* named by the key
C24_Witness ==
    /\ pc = "scanned"
    /\ Len(registry_keys) = 2
    /\ registry_keys[1].has_display_name /\ registry_keys[1].DisplayName = None
    /\ ~registry_keys[2].has_display_name
    /\ directory_games = << >>
    /\ Len(found_games) = 1
    /\ found_games[1].name = KeyGwent

\* the first metadata file of the directory is named goggame-<id>.info
FirstFileHasId ==
    listing.exists /\ listing.files # << >> /\ StemMatches(listing.files[1])

\* the build id the claim reads from a metadata file
BuildIdByPriority(file) ==
    IF IsBuildId(file.buildId) THEN file.buildId
    ELSE IF IsBuildId(file.build_id) THEN file.build_id
    ELSE IF IsBuildId(file.build) THEN file.build
    ELSE file.stem

\* C25: on a directory whose first metadata file is goggame-<id>.info the
\* detection of the build id returns the explicit build-id field if that
\* is a build id, else the generic build field if that is a build id,
\* else <id>; it returns None only when the directory has no metadata
\* file named goggame-<id>.info.
C25_DetectBuildIdPriority ==
    pc \in {"detected", "analyzed"}
    => /\ FirstFileHasId => build_id = BuildIdByPriority(listing.files[1])
       /\ build_id = None
            => ~\E k \in 1..Len(listing.files) : StemMatches(listing.files[k])

\* C26: in every record an update check emits, readable_version is "-" or
\* a string that is no build id, wherever the update check took it from:
\* the metadata file, the executable, version.txt or the catalog.
C26_ReadableIsNoBuildId ==
    \A k \in 1..Len(emitted) :
        \/ emitted[k].readable_version = Dash
        \/ /\ emitted[k].readable_version # None
           /\ ~IsBuildId(emitted[k].readable_version)

\* the classification has reached the numeric comparison: a result that is
\* no local reference, both values known, different as strings and both
\* build ids
NumericComparison ==
    /\ pc = "classified"
    /\ version_info.kind = "ok"
    /\ version_info.source \notin LocalSources
    /\ games[1].installed_version # version_info.latest_version
    /\ IsBuildId(games[1].installed_version)
    /\ IsBuildId(version_info.latest_version)

\* C28, as claimed: the 'equal' branch of the numeric comparison is never
\* taken: two build ids that differ as strings differ as numbers, and the
\* numeric comparison never gives 'Up to Date'.
C28_EqualBranchUnreachable ==
    NumericComparison
    => /\ ToInt(games[1].installed_version) # ToInt(version_info.latest_version)
       /\ games[1].update_status # StatusUpToDate

\* C28, amended: the 'equal' branch is taken exactly for two build ids that
\* are the same number written with different numbers of leading zeros,
\* and it gives 'Up to Date'; build ids of the same length that differ as
\* strings differ as numbers.
C28_EqualBranchIsLeadingZeros ==
    NumericComparison
    => /\ games[1].update_status = StatusUpToDate
            <=> ToInt(games[1].installed_version) = ToInt(version_info.latest_version)
       /\ ToInt(games[1].installed_version) = ToInt(version_info.latest_version)
            => Len(games[1].installed_version) # Len(version_info.latest_version)

\* installed 049183726 against latest 49183726
C28_Witness ==
    /\ NumericComparison
    /\ games[1].installed_version = Build726Padded
    /\ version_info.latest_version = Build726
    /\ games[1].update_status = StatusUpToDate

\* C29: an update check never assigns 'Cannot Check - No Latest Version':
\* a lookup result that is no error comes from the catalog or is a local
\* reference, and its latest_version is a non-empty string of digits,
\* never "Unknown": the selected build's id or the id that was looked up.
C29_NoLatestNeverAssigned ==
    /\ \A k \in 1..Len(emitted) : emitted[k].update_status # StatusNoLatest
    /\ ( JustChecked /\ version_info.kind = "ok" )
         => /\ version_info.source \in {"gogdb.org"} \cup LocalSources
            /\ IsDigit(version_info.latest_version)
            /\ version_info.latest_version # Unknown
            /\ \/ version_info.latest_version = api_id
               \/ /\ version_info.source = "gogdb.org"
                  /\ version_info.latest_version = SelectedBuild.id

\* a catalog hit whose selected build has no id, for a game whose installed
\* version is known: the status is a comparison's
C29_Witness ==
    /\ JustChecked
    /\ response.builds = <<Build(None, None, None)>>
    /\ version_info.source = "gogdb.org"
    /\ version_info.latest_version = api_id
    /\ Last.installed_version = Build726
    /\ Last.update_status = StatusUpdate

\* C27: records are rebuilt on every new scan: once the window has handled a
\* scan's games_found, no record of installed_games was put there by the
\* update_progress of an update-check thread that was started before that
\* scan thread.
C27_NoRecordOfEarlierCheck ==
    \A k \in 1..Len(installed_games) :
        written_by[k] = 0 \/ written_by[k] > delivered

\* the names of the records of a list, in the order of the list
NamesOf(list) == [k \in 1..Len(list) |-> list[k].name]

\* C30: while the update-check thread is running, no step changes which
\* games its list holds, and when it returns it has emitted each game of the
\* list once, in the order of the list.
C30_WorkerListUntouched ==
    [][UpdateRunning =>
          /\ NamesOf(games') = NamesOf(games)
          /\ update_thread' = "finished" => NamesOf(emitted') = NamesOf(games')
      ]_vars
====
